---- MODULE Spec2Model ----
(***************************************************************************)
(* QXChain post-quantum crypto core: the Kyber-style KEM (crypto/kyber.py) *)
(* and the Dilithium-style signature engine (crypto/quantum_signatures.py) *)
(* as state machines over byte strings.                                    *)
(*                                                                         *)
(* Byte strings are sequences of 0..255.  Polynomials are sequences of N   *)
(* integers (index k of the source is index k+1 here).  The ring degree    *)
(* and the vector dimensions are scaled down (N, Kyber_K, Sig_K, Sig_L);   *)
(* the moduli, byte widths and norm bounds are the source's.  The source's *)
(* literals that are multiples of N = 256 scale with N: 64 is N \div 4 and *)
(* the 32-byte KEM message is N \div 8 bytes.                              *)
(*                                                                         *)
(* hashlib's SHAKE/SHA3 are library code; they are stood in for by a       *)
(* deterministic byte-stream function (Xof), so that everything derived    *)
(* from a seed is a function of that seed, as in the source, and the       *)
(* entropy draws (os.urandom) are the nondeterministic inputs.             *)
(*                                                                         *)
(* Specifications: SpecCodec (pack / unpack), SpecKem (keygen, encaps,     *)
(* decaps), SpecSig and SpecSigFair (keygen, sign step by step, verify),   *)
(* SpecCrypto (both engines), SpecRuns (two calls of keygen or sign side   *)
(* by side), and the specifications that apply single functions to their   *)
(* arguments: SpecRing (ring arithmetic), SpecMsg (KEM message codec),     *)
(* SpecSample (seed-derived samplers), SpecHint (signature hints).         *)
(*                                                                         *)
(* The ledger on top of them: transactions and blocks (core/block.py), the *)
(* blockchain (core/blockchain.py) and the node (network/node.py).         *)
(* Strings are sequences of character codes, hex digests sequences of hex  *)
(* digits, amounts and timestamps integers; time.time() is an input.  The  *)
(* block size and the chain length are bounded (MaxTransactionsPerBlock,   *)
(* MaxChain), digests have HashLen digits.  Specifications: SpecBlock (one *)
(* block object), SpecChain (pool, mining, validation), SpecWallet         *)
(* (wallets and the transactions they sign), SpecReplace (replace_chain),  *)
(* SpecNode (blocks and transactions received from peers), SpecPool (pool  *)
(* fed by both routes, and mining), SpecSync (syncs with peers).           *)
(***************************************************************************)
EXTENDS Integers, Sequences, FiniteSets, TLC

(* ------------------------------------------------------------------ *)
(* Bounds of the model                                                 *)
(* ------------------------------------------------------------------ *)
N == 8
Kyber_K == 1
Sig_K == 1
Sig_L == 1
Sig2_TAU == 2
MaxKappa == 3
HashLen == 8
MaxTransactionsPerBlock == 2
MaxChain == 3

(* ------------------------------------------------------------------ *)
(* Program constants                                                   *)
(* ------------------------------------------------------------------ *)
Kyber_Q == 3329
Kyber_ETA1 == 2
Kyber_ETA2 == 2
SeedLen == 32
Sig_Q == 8380417
Sig_ETA == 2
Sig_TAU == 39
Sig2_Q == 8380417
Sig2_BETA == 78
Sig2_GAMMA1 == 131072
Sig2_GAMMA2 == (Sig2_Q - 1) \div 88
Sig_BETA == 78
Sig_GAMMA1 == 131072
Sig_GAMMA2 == (Sig_Q - 1) \div 88
GenesisSupply == 42000000
InitialDifficulty == 4
BlockReward == 10
TargetTime == 10

\* The pending pool holds one transaction more than a block takes, and a
\* balance is followed up to one block's reward and fees.
MaxPending == MaxTransactionsPerBlock + 1
BalanceCap == BlockReward + MaxTransactionsPerBlock

(* ------------------------------------------------------------------ *)
(* The entropy source (os.urandom)                                     *)
(* ------------------------------------------------------------------ *)
VARIABLE
    urandom   \* the values the next os.urandom calls return, in order

(* ------------------------------------------------------------------ *)
(* Python primitives: slices, int.to_bytes, int.from_bytes             *)
(* ------------------------------------------------------------------ *)
Min(a, b) == IF a < b THEN a ELSE b
Abs(x) == IF x < 0 THEN -x ELSE x

RECURSIVE Pow256(_)
Pow256(w) == IF w = 0 THEN 1 ELSE 256 * Pow256(w - 1)

\* data[lo:hi] (0-based, hi exclusive): clamps to the length, never fails.
Slice(data, lo, hi) ==
    LET h == Min(hi, Len(data))
    IN  IF lo >= h THEN << >> ELSE [k \in 1..(h - lo) |-> data[lo + k]]

\* int.from_bytes(bs, 'little', signed=sgn); the empty string decodes to 0.
\* The top byte is weighed as two's complement when signed, so that a signed
\* 4-byte value stays within 32 bits.
FromBytes(bs, sgn) ==
    LET n == Len(bs)
        RECURSIVE Acc(_)
        Acc(k) == IF k >= n THEN 0 ELSE bs[k] + 256 * Acc(k + 1)
        top == IF sgn /\ bs[n] >= 128 THEN bs[n] - 256 ELSE bs[n]
    IN  IF n = 0 THEN 0 ELSE Acc(1) + top * Pow256(n - 1)

\* Whether v.to_bytes(width, 'little', signed=sgn) raises OverflowError:
\* whether v lies outside [-256^width / 2, 256^width / 2), or [0, 256^width),
\* told from what is left of v above its low width - 1 bytes.
Overflows(v, width, sgn) ==
    LET hi == v \div Pow256(width - 1)
    IN  IF sgn THEN hi < -128 \/ hi >= 128
               ELSE v < 0 \/ hi >= 256

\* v.to_bytes(width, 'little', signed=sgn) for a value that fits: the low
\* width bytes of v in two's complement.
ToBytes(v, width, sgn) ==
    [k \in 1..width |-> (v \div Pow256(k - 1)) % 256]

\* The outcome of a call: a value, or the exception it raised.
Ok(v) == [exc |-> "none", val |-> v]
Raise(e) == [exc |-> e, val |-> << >>]

\* A vector of polynomials as one sequence of coefficients, in packing order.
Flatten(vec) ==
    [k \in 1..(Len(vec) * N) |-> vec[((k - 1) \div N) + 1][((k - 1) % N) + 1]]

\* "for coeff in ...: data += coeff.to_bytes(width, 'little', signed=sgn)"
PackCoeffs(coeffs, width, sgn) ==
    IF \E k \in 1..Len(coeffs) : Overflows(coeffs[k], width, sgn)
    THEN Raise("OverflowError")
    ELSE Ok([b \in 1..(Len(coeffs) * width) |->
               ToBytes(coeffs[((b - 1) \div width) + 1], width, sgn)[((b - 1) % width) + 1]])

\* "for i in range(cnt): for j in range(N): int.from_bytes(data[offset:offset+width])"
UnpackVec(data, offset, cnt, width, sgn) ==
    [i \in 1..cnt |-> [j \in 1..N |->
        LET off == offset + ((i - 1) * N + (j - 1)) * width
        IN  FromBytes(Slice(data, off, off + width), sgn)]]

(* ------------------------------------------------------------------ *)
(* Stand-in for hashlib's extendable-output and fixed-output hashes    *)
(* ------------------------------------------------------------------ *)
\* Deterministic, position-sensitive, and cheap to evaluate; nothing in the
\* engines depends on more than the stream being a function of the input.
XofModulus == 65537

\* Sum over k in lo..hi of the weighted bytes of data, by halving.
RECURSIVE DigestSum(_, _, _)
DigestSum(data, lo, hi) ==
    IF lo > hi THEN 0
    ELSE IF lo = hi
         THEN ((data[lo] + 1) * ((lo * lo * 31 + lo * 7 + 1) % XofModulus)) % XofModulus
         ELSE LET mid == (lo + hi) \div 2
              IN  (DigestSum(data, lo, mid) + DigestSum(data, mid + 1, hi)) % XofModulus

Digest(domain, data) ==
    (5381 + 977 * domain + 131 * Len(data) + DigestSum(data, 1, Len(data))) % XofModulus

XofByte(x, k) ==
    ((((x + 1) * (12007 + ((53 * k * k + 211 * k) % 20000))) % XofModulus) \div 16) % 256

Xof(domain, data, len) ==
    LET x == Digest(domain, data) IN [k \in 1..len |-> XofByte(x, k)]

Kyber_shake128(data, len) == Xof(1, data, len)
Kyber_sha3_256(data) == Xof(3, data, 32)
Kyber_kdf(data) == Xof(3, data, 32)
Sig_shake256(data, len) == Xof(2, data, len)
Sig2_shake256(data, len) == Xof(2, data, len)
Sig2_sha3_256(data) == Xof(3, data, 32)

(* ------------------------------------------------------------------ *)
(* Kyber1024: canonical codec                                          *)
(* ------------------------------------------------------------------ *)
ZeroPoly == [k \in 1..N |-> 0]

Kyber_pack_public_key(t, rho) ==
    LET body == PackCoeffs(Flatten(t), 2, FALSE)
    IN  IF body.exc # "none" THEN body ELSE Ok(rho \o body.val)

Kyber_unpack_public_key(pk) ==
    [t |-> UnpackVec(pk, SeedLen, Kyber_K, 2, FALSE), rho |-> Slice(pk, 0, SeedLen)]

Kyber_pack_private_key(s) == PackCoeffs(Flatten(s), 2, FALSE)

Kyber_unpack_private_key(sk) == UnpackVec(sk, 0, Kyber_K, 2, FALSE)

Kyber_pack_ciphertext(u, v) == PackCoeffs(Flatten(u) \o v, 2, FALSE)

\* Mutant of Kyber_unpack_ciphertext: the offset is reset before v is read.
Kyber_unpack_ciphertext_offset_reset(ct) ==
    [u |-> UnpackVec(ct, 0, Kyber_K, 2, FALSE),
     v |-> UnpackVec(ct, 0, 1, 2, FALSE)[1]]

Kyber_unpack_ciphertext(ct) ==
    [u |-> UnpackVec(ct, 0, Kyber_K, 2, FALSE),
     v |-> UnpackVec(ct, 2 * Kyber_K * N, 1, 2, FALSE)[1]]

(* ------------------------------------------------------------------ *)
(* Ring arithmetic (shared shape of both engines; q is the modulus)    *)
(* ------------------------------------------------------------------ *)
\* (a * b) % q as Python's unbounded integers give it, computed in 8-bit
\* limbs of b so that no intermediate product leaves 32 bits (q < 2^23).
MulMod(a, b, q) ==
    LET a1 == a % q
        b1 == b % q
        l0 == b1 % 256
        l1 == (b1 \div 256) % 256
        l2 == b1 \div 65536
        p0 == (a1 * l0) % q
        p1 == (((a1 * l1) % q) * 256) % q
        p2 == (((((a1 * l2) % q) * 256) % q) * 256) % q
    IN  (p0 + p1 + p2) % q

PolyAdd(a, b, q) == [k \in 1..N |-> (a[k] + b[k]) % q]
\* Mutant of PolySub: the difference is returned without the reduction.
PolySub_unreduced(a, b, q) == [k \in 1..N |-> a[k] - b[k]]

PolySub(a, b, q) == [k \in 1..N |-> (a[k] - b[k]) % q]

\* The schoolbook double loop "for i: for j:".  For one i the inner loop
\* visits every j once and updates entry (i + j) mod N of result, a different
\* entry for each j: result[i + j] += a[i] * b[j] while i + j < N, and
\* result[i + j - N] -= a[i] * b[j] otherwise, reduced mod q at every update.
PolyMulInner(a, b, q, i, result) ==
    [k \in 1..N |->
        LET j == (k - 1 - i) % N
            prod == MulMod(a[i + 1], b[j + 1], q)
        IN  IF i + j < N THEN (result[k] + prod) % q ELSE (result[k] - prod) % q]

RECURSIVE PolyMulLoop(_, _, _, _, _)
PolyMulLoop(a, b, q, i, result) ==
    IF i = N THEN result
    ELSE PolyMulLoop(a, b, q, i + 1, PolyMulInner(a, b, q, i, result))

\* Mutant of PolyMul: the wrapped products are added, as modulo X^N - 1.
RECURSIVE PolyMulLoop_cyclic(_, _, _, _, _)
PolyMulLoop_cyclic(a, b, q, i, result) ==
    IF i = N THEN result
    ELSE PolyMulLoop_cyclic(a, b, q, i + 1,
            [k \in 1..N |-> (result[k] + MulMod(a[i + 1], b[((k - 1 - i) % N) + 1], q)) % q])

PolyMul_cyclic(a, b, q) == PolyMulLoop_cyclic(a, b, q, 0, ZeroPoly)

PolyMul(a, b, q) == PolyMulLoop(a, b, q, 0, ZeroPoly)

\* poly_sum = 0; for j: poly_sum = add(poly_sum, mul(row[j], v[j]))
RECURSIVE DotLoop(_, _, _, _, _)
DotLoop(row, v, q, j, acc) ==
    IF j > Len(v) THEN acc
    ELSE DotLoop(row, v, q, j + 1, PolyAdd(acc, PolyMul(row[j], v[j], q), q))

VectorDotProduct(a, b, q) == DotLoop(a, b, q, 1, ZeroPoly)
MatrixVectorMul(A, v, q) == [i \in 1..Len(A) |-> DotLoop(A[i], v, q, 1, ZeroPoly)]
MatrixTransposeVectorMul(A, v, q) ==
    [j \in 1..Len(A[1]) |-> DotLoop([i \in 1..Len(A) |-> A[i][j]], v, q, 1, ZeroPoly)]
VectorAdd(a, b, q) == [i \in 1..Len(a) |-> PolyAdd(a[i], b[i], q)]
VectorSub(a, b, q) == [i \in 1..Len(a) |-> PolySub(a[i], b[i], q)]

(* ------------------------------------------------------------------ *)
(* Seed-derived samplers (shared shape of both engines)                *)
(* ------------------------------------------------------------------ *)
\* The rejection loop over 3-byte chunks: two 12-bit candidates per chunk.
RECURSIVE UniformLoop(_, _, _, _, _)
UniformLoop(stream, q, i, j, poly) ==
    IF i >= Len(stream) \/ j >= N THEN poly
    ELSE LET d1 == stream[i + 1] + 256 * (stream[i + 2] % 16)
             d2 == (stream[i + 2] \div 16) + 16 * stream[i + 3]
             p1 == IF d1 < q THEN [poly EXCEPT ![j + 1] = d1] ELSE poly
             j1 == IF d1 < q THEN j + 1 ELSE j
             p2 == IF d2 < q /\ j1 < N THEN [p1 EXCEPT ![j1 + 1] = d2] ELSE p1
             j2 == IF d2 < q /\ j1 < N THEN j1 + 1 ELSE j1
         IN  UniformLoop(stream, q, i + 3, j2, p2)

\* Bit bit_pos of the stream, 0 when the stream is too short to hold it.
StreamBit(stream, bit_pos) ==
    LET byte_pos == bit_pos \div 8
        bit_offset == bit_pos % 8
    IN  IF byte_pos < Len(stream)
        THEN (stream[byte_pos + 1] \div (2 ^ bit_offset)) % 2
        ELSE 0

RECURSIVE BitSum(_, _, _)
BitSum(stream, first, cnt) ==
    IF cnt = 0 THEN 0
    ELSE StreamBit(stream, first) + BitSum(stream, first + 1, cnt - 1)

Cbd(stream, eta, q) ==
    [k \in 1..N |->
        LET i == k - 1
            a == BitSum(stream, 2 * eta * i, eta)
            b == BitSum(stream, 2 * eta * i + eta, eta)
        IN  (a - b) % q]

(* ------------------------------------------------------------------ *)
(* Kyber1024                                                           *)
(* ------------------------------------------------------------------ *)
\* The 32-byte message of the source holds N = 256 bits.
MsgLen == N \div 8

Kyber_sample_uniform_poly(seed) ==
    UniformLoop(Kyber_shake128(seed, 3 * N), Kyber_Q, 0, 0, ZeroPoly)

Kyber_gen_matrix(rho) ==
    [i \in 1..Kyber_K |-> [j \in 1..Kyber_K |->
        Kyber_sample_uniform_poly(rho \o <<j - 1, i - 1>>)]]

\* The stream drawn for polynomial i: 64 * eta bytes in the source, where
\* 64 = N / 4.
Kyber_cbd_stream(seed, eta, i) == Kyber_shake128(seed \o <<i>>, (N \div 4) * eta)

Kyber_sample_poly_cbd(seed, eta, k) ==
    [i \in 1..k |-> Cbd(Kyber_cbd_stream(seed, eta, i - 1), eta, Kyber_Q)]

Kyber_decode_message(m) ==
    [k \in 1..N |->
        LET i == (k - 1) \div 8
            j == (k - 1) % 8
        IN  IF i < MsgLen THEN ((m[i + 1] \div (2 ^ j)) % 2) * (Kyber_Q \div 2) ELSE 0]

Kyber_encode_bit(coeff) == IF coeff > Kyber_Q \div 2 THEN 1 ELSE 0

RECURSIVE Kyber_encode_byte(_, _, _)
Kyber_encode_byte(poly, byte_pos, bit_pos) ==
    IF bit_pos = 8 \/ 8 * byte_pos + bit_pos >= N THEN 0
    ELSE Kyber_encode_bit(poly[8 * byte_pos + bit_pos + 1]) * (2 ^ bit_pos)
         + Kyber_encode_byte(poly, byte_pos, bit_pos + 1)

Kyber_encode_message(poly) == [b \in 1..MsgLen |-> Kyber_encode_byte(poly, b - 1, 0)]

\* keygen with os.urandom(32) returning seed
Kyber_keygen(seed) ==
    LET rho == Kyber_shake128(seed, SeedLen)
        sigma == Kyber_shake128(seed \o <<1>>, SeedLen)
        A == Kyber_gen_matrix(rho)
        s == Kyber_sample_poly_cbd(sigma, Kyber_ETA1, Kyber_K)
        e == Kyber_sample_poly_cbd(sigma \o <<1>>, Kyber_ETA1, Kyber_K)
        t == VectorAdd(MatrixVectorMul(A, s, Kyber_Q), e, Kyber_Q)
        pk == Kyber_pack_public_key(t, rho)
        sk == Kyber_pack_private_key(s)
    IN  IF pk.exc # "none" THEN pk
        ELSE IF sk.exc # "none" THEN sk
        ELSE Ok([pk |-> pk.val, sk |-> sk.val])

\* encaps with os.urandom(32) returning m
Kyber_encaps(pk, m) ==
    LET un == Kyber_unpack_public_key(pk)
        r == Kyber_shake128(m, SeedLen)
        A == Kyber_gen_matrix(un.rho)
        r_vec == Kyber_sample_poly_cbd(r, Kyber_ETA1, Kyber_K)
        e1 == Kyber_sample_poly_cbd(r \o <<1>>, Kyber_ETA2, Kyber_K)
        e2 == Kyber_sample_poly_cbd(r \o <<2>>, Kyber_ETA2, 1)[1]
        u == VectorAdd(MatrixTransposeVectorMul(A, r_vec, Kyber_Q), e1, Kyber_Q)
        v0 == VectorDotProduct(un.t, r_vec, Kyber_Q)
        v1 == PolyAdd(v0, e2, Kyber_Q)
        v == PolyAdd(v1, Kyber_decode_message(m), Kyber_Q)
        ct == Kyber_pack_ciphertext(u, v)
    IN  IF ct.exc # "none" THEN ct
        ELSE Ok([ct |-> ct.val, ss |-> Kyber_kdf(m \o Kyber_sha3_256(ct.val))])

Kyber_decaps_message(ct, sk) ==
    LET s == Kyber_unpack_private_key(sk)
        c == Kyber_unpack_ciphertext(ct)
        m_prime == PolySub(c.v, VectorDotProduct(s, c.u, Kyber_Q), Kyber_Q)
    IN  Kyber_encode_message(m_prime)

Kyber_decaps(ct, sk) ==
    Ok(Kyber_kdf(Kyber_decaps_message(ct, sk) \o Kyber_sha3_256(ct)))

(* ------------------------------------------------------------------ *)
(* QuantumSignature (crypto/quantum_signatures.py)                     *)
(* ------------------------------------------------------------------ *)
Sig_sample_uniform_poly(seed) ==
    UniformLoop(Sig_shake256(seed, 3 * N), Sig_Q, 0, 0, ZeroPoly)

Sig_expand_matrix(rho) ==
    [i \in 1..Sig_K |-> [j \in 1..Sig_L |->
        Sig_sample_uniform_poly(rho \o <<j - 1, i - 1>>)]]

\* The stream drawn for polynomial i: 64 bytes in the source, where
\* 64 = N / 4.
Sig_ball_stream(seed, i) == Sig_shake256(seed \o <<i>>, N \div 4)

Sig_sample_in_ball(seed, length) ==
    [i \in 1..length |-> Cbd(Sig_ball_stream(seed, i - 1), Sig_ETA, Sig_Q)]

\* int.from_bytes(bs, 'little') % m, by Horner's rule so that a 4-byte
\* value never leaves 32 bits.
RECURSIVE FromBytesMod(_, _, _)
FromBytesMod(bs, k, m) ==
    IF k > Len(bs) THEN 0 ELSE (bs[k] + 256 * FromBytesMod(bs, k + 1, m)) % m

Sig_sample_gamma1(stream) ==
    [k \in 1..N |->
        LET byte_idx == ((k - 1) * 5) \div 8
        IN  IF byte_idx + 4 < Len(stream)
            THEN FromBytesMod(Slice(stream, byte_idx, byte_idx + 4), 1, 2 * Sig_GAMMA1 + 1)
                 - Sig_GAMMA1
            ELSE 0]

Sig_sample_mask(seed) ==
    [i \in 1..Sig_L |-> Sig_sample_gamma1(Sig_shake256(seed \o <<i - 1>>, 5 * N))]

\* The while loop of _sample_challenge: positions is the set of indices set.
RECURSIVE ChallengeLoop(_, _, _, _)
ChallengeLoop(stream, i, positions, poly) ==
    IF ~(Cardinality(positions) < Sig_TAU /\ i < Len(stream)) THEN poly
    ELSE LET pos == stream[i + 1] % N
         IN  IF pos \notin positions
             THEN ChallengeLoop(stream, i + 1, positions \cup {pos},
                     [poly EXCEPT ![pos + 1] = IF stream[i + 1] \div 128 # 0 THEN 1 ELSE -1])
             ELSE ChallengeLoop(stream, i + 1, positions, poly)

Sig_sample_challenge(seed) == ChallengeLoop(Sig_shake256(seed, 32), 0, {}, ZeroPoly)

Sig_scalar_vector_mul(c, v) == [i \in 1..Len(v) |-> PolyMul(c, v[i], Sig_Q)]

Sig_decompose_high(poly) ==
    [k \in 1..N |-> (poly[k] + Sig_GAMMA2) \div (2 * Sig_GAMMA2)]
Sig_decompose_low(poly) ==
    [k \in 1..N |-> (poly[k] % (2 * Sig_GAMMA2)) - Sig_GAMMA2]
Sig_high_bits(v) == [i \in 1..Len(v) |-> Sig_decompose_high(v[i])]
Sig_low_bits(v) == [i \in 1..Len(v) |-> Sig_decompose_low(v[i])]

\* TRUE when some coefficient has absolute value >= bound.
Sig_check_bounds(v, bound) ==
    \E i \in 1..Len(v) : \E k \in 1..N : Abs(v[i][k]) >= bound

Sig_pack_public_key(rho, t) ==
    LET body == PackCoeffs(Flatten(t), 3, FALSE)
    IN  IF body.exc # "none" THEN body ELSE Ok(rho \o body.val)

Sig_unpack_public_key(pk) ==
    [rho |-> Slice(pk, 0, SeedLen), t |-> UnpackVec(pk, SeedLen, Sig_K, 3, FALSE)]

Sig_pack_private_key(rho, K_bytes, s1, s2, t) ==
    LET p1 == PackCoeffs(Flatten(s1), 2, TRUE)
        p2 == PackCoeffs(Flatten(s2), 2, TRUE)
        p3 == PackCoeffs(Flatten(t), 3, FALSE)
    IN  IF p1.exc # "none" THEN p1
        ELSE IF p2.exc # "none" THEN p2
        ELSE IF p3.exc # "none" THEN p3
        ELSE Ok(rho \o K_bytes \o p1.val \o p2.val \o p3.val)

Sig_unpack_private_key(sk) ==
    [rho |-> Slice(sk, 0, SeedLen),
     K_bytes |-> Slice(sk, SeedLen, 2 * SeedLen),
     s1 |-> UnpackVec(sk, 2 * SeedLen, Sig_L, 2, TRUE),
     s2 |-> UnpackVec(sk, 2 * SeedLen + 2 * Sig_L * N, Sig_K, 2, TRUE),
     t |-> UnpackVec(sk, 2 * SeedLen + 2 * Sig_L * N + 2 * Sig_K * N, Sig_K, 3, FALSE)]

Sig_pack_signature(c, z) ==
    LET p1 == PackCoeffs(c, 1, TRUE)
        p2 == PackCoeffs(Flatten(z), 3, TRUE)
    IN  IF p1.exc # "none" THEN p1
        ELSE IF p2.exc # "none" THEN p2
        ELSE Ok(p1.val \o p2.val)

Sig_unpack_signature(sig) ==
    [c |-> [k \in 1..N |-> FromBytes(Slice(sig, k - 1, k), TRUE)],
     z |-> UnpackVec(sig, N, Sig_L, 3, TRUE)]

Sig_pack_w1(w1) == PackCoeffs(Flatten(w1), 1, FALSE)

\* Mutant of Sig_keygen: K_bytes comes from a second os.urandom(32) call
\* instead of being derived from the seed.
Sig_keygen_second_draw(seed) ==
    LET rho == Sig_shake256(seed, 32)
        rhoprime == Sig_shake256(seed \o <<1>>, 64)
        K_bytes == urandom[2]
        A == Sig_expand_matrix(rho)
        s1 == Sig_sample_in_ball(Slice(rhoprime, 0, 32), Sig_L)
        s2 == Sig_sample_in_ball(Slice(rhoprime, 32, 64), Sig_K)
        t == VectorAdd(MatrixVectorMul(A, s1, Sig_Q), s2, Sig_Q)
        pk == Sig_pack_public_key(rho, t)
        sk == Sig_pack_private_key(rho, K_bytes, s1, s2, t)
        parts == [rho |-> rho, K_bytes |-> K_bytes, s1 |-> s1, s2 |-> s2, t |-> t]
    IN  IF pk.exc # "none" THEN [exc |-> pk.exc, pk |-> << >>, sk |-> << >>, parts |-> parts]
        ELSE IF sk.exc # "none" THEN [exc |-> sk.exc, pk |-> << >>, sk |-> << >>, parts |-> parts]
        ELSE [exc |-> "none", pk |-> pk.val, sk |-> sk.val, parts |-> parts]

\* keygen with os.urandom(32) returning seed: the keys, and what was packed.
Sig_keygen(seed) ==
    LET rho == Sig_shake256(seed, 32)
        rhoprime == Sig_shake256(seed \o <<1>>, 64)
        K_bytes == Sig_shake256(seed \o <<2>>, 32)
        A == Sig_expand_matrix(rho)
        s1 == Sig_sample_in_ball(Slice(rhoprime, 0, 32), Sig_L)
        s2 == Sig_sample_in_ball(Slice(rhoprime, 32, 64), Sig_K)
        t == VectorAdd(MatrixVectorMul(A, s1, Sig_Q), s2, Sig_Q)
        pk == Sig_pack_public_key(rho, t)
        sk == Sig_pack_private_key(rho, K_bytes, s1, s2, t)
        parts == [rho |-> rho, K_bytes |-> K_bytes, s1 |-> s1, s2 |-> s2, t |-> t]
    IN  IF pk.exc # "none" THEN [exc |-> pk.exc, pk |-> << >>, sk |-> << >>, parts |-> parts]
        ELSE IF sk.exc # "none" THEN [exc |-> sk.exc, pk |-> << >>, sk |-> << >>, parts |-> parts]
        ELSE [exc |-> "none", pk |-> pk.val, sk |-> sk.val, parts |-> parts]

\* sign, before its loop: the unpacked key and the message digest mu.
Sig_sign_prologue(message, private_key) ==
    LET un == Sig_unpack_private_key(private_key)
        pk == Sig_pack_public_key(un.rho, un.t)
    IN  IF pk.exc # "none" THEN [exc |-> pk.exc, key |-> un, mu |-> << >>]
        ELSE [exc |-> "none", key |-> un, mu |-> Sig_shake256(message \o pk.val, 64)]

\* The seed sign hands to _sample_mask in the iteration with this nonce.
Sig_mask_seed(key, mu, nonce) == key.K_bytes \o ToBytes(nonce, 2, FALSE)

\* One iteration of sign's loop up to the candidate z = y + c*s1.
Sig_sign_candidate(key, mu, nonce) ==
    LET A == Sig_expand_matrix(key.rho)
        y == Sig_sample_mask(Sig_mask_seed(key, mu, nonce))
        w == MatrixVectorMul(A, y, Sig_Q)
        w1 == Sig_high_bits(w)
        pw == Sig_pack_w1(w1)
        c == Sig_sample_challenge(mu \o pw.val)
        z == VectorAdd(y, Sig_scalar_vector_mul(c, key.s1), Sig_Q)
    IN  [exc |-> pw.exc, c |-> c, z |-> z, w |-> w, y |-> y]

\* Mutant of Sig_sign_rejects: the check of z is left out.
Sig_sign_rejects_r0_only(key, cand) ==
    LET cs2 == Sig_scalar_vector_mul(cand.c, key.s2)
        r0 == Sig_low_bits(VectorSub(cand.w, cs2, Sig_Q))
    IN  Sig_check_bounds(r0, Sig_GAMMA2 - Sig_BETA)

\* The two bound checks of the iteration: TRUE when the candidate is rejected.
Sig_sign_rejects(key, cand) ==
    \/ Sig_check_bounds(cand.z, Sig_GAMMA1 - Sig_BETA)
    \/ LET cs2 == Sig_scalar_vector_mul(cand.c, key.s2)
           r0 == Sig_low_bits(VectorSub(cand.w, cs2, Sig_Q))
       IN  Sig_check_bounds(r0, Sig_GAMMA2 - Sig_BETA)

\* The while loop of sign from the iteration with this nonce on, run for at
\* most fuel iterations: the signature, the exception, or "diverges" when
\* the loop is still running after them.  A rejected candidate is followed
\* by "continue": the next iteration starts from the same locals.
RECURSIVE Sig_sign_loop(_, _, _, _)
Sig_sign_loop(key, mu, nonce, fuel) ==
    IF fuel = 0 THEN Raise("diverges")
    ELSE LET cand == Sig_sign_candidate(key, mu, nonce)
         IN  IF cand.exc # "none" THEN Raise(cand.exc)
             ELSE IF Sig_sign_rejects(key, cand)
                  THEN Sig_sign_loop(key, mu, nonce, fuel - 1)
                  ELSE Sig_pack_signature(cand.c, cand.z)

\* sign(message, private_key) as one call.
Sig_sign(message, private_key) ==
    LET pro == Sig_sign_prologue(message, private_key)
    IN  IF pro.exc # "none" THEN Raise(pro.exc)
        ELSE Sig_sign_loop(pro.key, pro.mu, 0, MaxKappa)

Sig_PkLen == SeedLen + 3 * Sig_K * N
Sig_SkLen == 2 * SeedLen + 2 * Sig_L * N + 2 * Sig_K * N + 3 * Sig_K * N
Sig_SigLen == N + 3 * Sig_L * N

\* The try block of verify: what it returns and the line it returns from
\* ("bounds": the bound check, before the matrix is expanded; "compare":
\* the final comparison), or the exception that leaves the block.
Sig_verify_try(message, signature, public_key) ==
    LET pk == Sig_unpack_public_key(public_key)
        sg == Sig_unpack_signature(signature)
    IN  IF ~Sig_check_bounds(sg.z, Sig_GAMMA1 - Sig_BETA)
        THEN [exc |-> "none", ret |-> FALSE, at |-> "bounds"]
        ELSE LET A == Sig_expand_matrix(pk.rho)
                 mu == Sig_shake256(message \o public_key, 64)
                 Az == MatrixVectorMul(A, sg.z, Sig_Q)
                 ct == Sig_scalar_vector_mul(sg.c, pk.t)
                 w_prime == VectorSub(Az, ct, Sig_Q)
                 w1_prime == Sig_high_bits(w_prime)
                 pw == Sig_pack_w1(w1_prime)
             IN  IF pw.exc # "none"
                 THEN [exc |-> pw.exc, ret |-> FALSE, at |-> "pack_w1"]
                 ELSE [exc |-> "none", ret |-> (sg.c = Sig_sample_challenge(mu \o pw.val)),
                       at |-> "compare"]

\* Mutant of Sig_verify: buffers of the wrong length are reported to the
\* caller as a failure instead of being decoded, and nothing catches it.
Sig_verify_propagating(message, signature, public_key) ==
    IF Len(signature) # Sig_SigLen \/ Len(public_key) # Sig_PkLen
    THEN [exc |-> "InvalidLength", ret |-> FALSE, at |-> "unpack"]
    ELSE Sig_verify_try(message, signature, public_key)

\* verify: "except Exception: return False" around the try block.
Sig_verify(message, signature, public_key) ==
    LET r == Sig_verify_try(message, signature, public_key)
    IN  IF r.exc # "none" THEN [exc |-> "none", ret |-> FALSE, at |-> "except"] ELSE r

(* ------------------------------------------------------------------ *)
(* QuantumSignature (crypto/signatures.py), the wallet's engine: verify *)
(* ------------------------------------------------------------------ *)
\* The dimensions are those of the other engine; TAU is scaled with N.
Sig2_K == Sig_K
Sig2_L == Sig_L
Sig2_PkLen == SeedLen + 4 * Sig2_K * N
Sig2_HintLen == (Sig2_K * N + 7) \div 8
Sig2_SigLen == SeedLen + 4 * Sig2_L * N + Sig2_HintLen

\* Every 5-byte group is reduced mod Q, so none is rejected and coefficient
\* j is the j-th group.
Sig2_sample_uniform_poly(seed) ==
    LET stream == Sig2_shake256(seed, 5 * N)
    IN  [j \in 1..N |-> FromBytesMod(Slice(stream, 5 * (j - 1), 5 * j), 1, Sig2_Q)]

Sig2_expand_A(rho) ==
    [i \in 1..Sig2_K |-> [j \in 1..Sig2_L |->
        Sig2_sample_uniform_poly(rho \o <<j - 1, i - 1>>)]]

\* (signs >> shift) & 1
ShiftBit(signs, shift) == IF shift >= 8 THEN 0 ELSE (signs \div (2 ^ shift)) % 2

\* The loop of _sample_in_ball for i (0-based) up to N - 1; pos is the next
\* byte of the stream.
RECURSIVE BallLoop(_, _, _, _, _)
BallLoop(stream, tau, i, pos, poly) ==
    IF i >= N THEN poly
    ELSE LET j == stream[pos + 1] % (i + 1)
             moved == [poly EXCEPT ![i + 1] = poly[j + 1]]
             sgn == IF ShiftBit(stream[1], i - (N - tau)) = 1 THEN 1 ELSE -1
         IN  BallLoop(stream, tau, i + 1, pos + 1, [moved EXCEPT ![j + 1] = sgn])

Sig2_sample_in_ball(seed, tau) ==
    BallLoop(Sig2_shake256(seed, 8 + tau), tau, N - tau, 8, ZeroPoly)

Sig2_scalar_vector_mul(c, v) == [i \in 1..Len(v) |-> PolyMul(c, v[i], Sig2_Q)]

\* The largest absolute value of a coefficient.
Sig2_infinity_norm(v) ==
    LET norms == {0} \cup {Abs(v[i][k]) : i \in 1..Len(v), k \in 1..N}
    IN  CHOOSE m \in norms : \A x \in norms : x <= m

Sig2_high_bits(v) ==
    [i \in 1..Len(v) |-> [k \in 1..N |-> v[i][k] \div (2 * Sig2_GAMMA2)]]

\* One hint bit per coefficient, in order; the argument c is not read.  The
\* difference w - cs2 is taken over the integers, and // rounds down.
Sig2_make_hint(c, w, cs2) ==
    [idx \in 1..(Len(w) * N) |->
        LET i == ((idx - 1) \div N) + 1
            j == ((idx - 1) % N) + 1
            w_high == w[i][j] \div (2 * Sig2_GAMMA2)
            w_cs2_high == (w[i][j] - cs2[i][j]) \div (2 * Sig2_GAMMA2)
        IN  IF w_high # w_cs2_high THEN 1 ELSE 0]

\* hint_idx runs over the coefficients in order.
Sig2_use_hint(h, w) ==
    [i \in 1..Len(w) |-> [k \in 1..N |->
        LET hint_idx == (i - 1) * N + (k - 1)
            high == w[i][k] \div (2 * Sig2_GAMMA2)
        IN  IF hint_idx < Len(h) /\ h[hint_idx + 1] # 0 THEN high + 1 ELSE high]]

Sig2_unpack_public_key(pk) ==
    [rho |-> Slice(pk, 0, SeedLen), t |-> UnpackVec(pk, SeedLen, Sig2_K, 4, FALSE)]

Sig2_unpack_signature(sig) ==
    LET offset == SeedLen + 4 * Sig2_L * N
        hint_bytes == Slice(sig, offset, offset + Sig2_HintLen)
    IN  [c_tilde |-> Slice(sig, 0, SeedLen),
         z |-> UnpackVec(sig, SeedLen, Sig2_L, 4, TRUE),
         h |-> [i \in 1..(Sig2_K * N) |->
                  LET byte_idx == (i - 1) \div 8
                  IN  IF byte_idx < Len(hint_bytes)
                      THEN ShiftBit(hint_bytes[byte_idx + 1], (i - 1) % 8)
                      ELSE 0]]

Sig2_pack_w1(w1) == PackCoeffs(Flatten(w1), 2, FALSE)

Sig2_low_bits(v) ==
    [i \in 1..Len(v) |-> [k \in 1..N |-> v[i][k] % (2 * Sig2_GAMMA2)]]

\* The stream has 3 bytes for every coefficient, so each is read in full.
Sig2_sample_mask(seed, l) ==
    [i \in 1..l |->
        LET stream == Sig2_shake256(seed \o <<i - 1>>, N * 3)
        IN  [j \in 1..N |->
               (FromBytes(Slice(stream, 3 * (j - 1), 3 * j), FALSE) % (2 * Sig2_GAMMA1))
               - Sig2_GAMMA1]]

Sig2_unpack_private_key(sk) ==
    [rho |-> Slice(sk, 0, SeedLen),
     K_seed |-> Slice(sk, SeedLen, 2 * SeedLen),
     s1 |-> UnpackVec(sk, 2 * SeedLen, Sig2_L, 4, TRUE),
     s2 |-> UnpackVec(sk, 2 * SeedLen + 4 * Sig2_L * N, Sig2_K, 4, TRUE),
     t |-> UnpackVec(sk, 2 * SeedLen + 4 * Sig2_L * N + 4 * Sig2_K * N, Sig2_K, 4, FALSE)]

Sig2_SkLen == 2 * SeedLen + 4 * Sig2_L * N + 4 * Sig2_K * N + 4 * Sig2_K * N

\* sign up to "kappa = 0".
Sig2_sign_prologue(message, sk) ==
    [exc |-> "none", key |-> Sig2_unpack_private_key(sk), mu |-> Sig2_sha3_256(message)]

\* One iteration of the loop of sign up to z = y + c*s1.
Sig2_sign_candidate(key, mu, kappa) ==
    IF Overflows(kappa, 2, FALSE)
    THEN [exc |-> "OverflowError", c |-> << >>, z |-> << >>, w |-> << >>]
    ELSE LET rhoprime == Sig2_shake256(key.K_seed \o mu \o ToBytes(kappa, 2, FALSE), 64)
             y == Sig2_sample_mask(rhoprime, Sig2_L)
             A == Sig2_expand_A(key.rho)
             w == MatrixVectorMul(A, y, Sig2_Q)
             pw == Sig2_pack_w1(Sig2_high_bits(w))
             c_tilde == Sig2_sha3_256(mu \o pw.val)
             c == Sig2_sample_in_ball(c_tilde, Sig2_TAU)
         IN  IF pw.exc # "none"
             THEN [exc |-> pw.exc, c |-> << >>, z |-> << >>, w |-> << >>]
             ELSE [exc |-> "none", c |-> c,
                   z |-> VectorAdd(y, Sig2_scalar_vector_mul(c, key.s1), Sig2_Q), w |-> w]

\* The two norm checks of the iteration: TRUE when the candidate is rejected.
Sig2_sign_rejects(key, cand) ==
    \/ Sig2_infinity_norm(cand.z) >= Sig2_GAMMA1 - Sig2_BETA
    \/ Sig2_infinity_norm(Sig2_low_bits(
           VectorSub(cand.w, Sig2_scalar_vector_mul(cand.c, key.s2), Sig2_Q)))
         >= Sig2_GAMMA2 - Sig2_BETA

\* What follows an accepted candidate: the argument -c of _make_hint is the
\* negation of a list, which raises before _make_hint is entered.
Sig2_sign_finish(key, cand) == Raise("TypeError")

\* The try block of verify.
Sig2_verify_try(message, signature, pk) ==
    LET key == Sig2_unpack_public_key(pk)
        sg == Sig2_unpack_signature(signature)
    IN  IF Sig2_infinity_norm(sg.z) >= Sig2_GAMMA1 - Sig2_BETA
        THEN [exc |-> "none", ret |-> FALSE, at |-> "bounds"]
        ELSE LET c == Sig2_sample_in_ball(sg.c_tilde, Sig2_TAU)
                 A == Sig2_expand_A(key.rho)
                 w_prime == VectorSub(MatrixVectorMul(A, sg.z, Sig2_Q),
                                      Sig2_scalar_vector_mul(c, key.t), Sig2_Q)
                 w1 == Sig2_use_hint(sg.h, w_prime)
                 mu == Sig2_sha3_256(message)
                 pw == Sig2_pack_w1(w1)
             IN  IF pw.exc # "none"
                 THEN [exc |-> pw.exc, ret |-> FALSE, at |-> "pack_w1"]
                 ELSE [exc |-> "none", ret |-> (sg.c_tilde = Sig2_sha3_256(mu \o pw.val)),
                       at |-> "compare"]

\* verify: "except Exception: return False" around the try block.
Sig2_verify(message, signature, pk) ==
    LET r == Sig2_verify_try(message, signature, pk)
    IN  IF r.exc # "none" THEN [exc |-> "none", ret |-> FALSE, at |-> "except"] ELSE r

(* ------------------------------------------------------------------ *)
(* State                                                               *)
(* ------------------------------------------------------------------ *)
VARIABLES
    cpc,      \* codec exercise: "in" | "packed" | "unpacked"
    cin,      \* its inputs: [t, rho, s, u, v]
    cbytes,   \* the packed structures: [pk, sk, ct]
    cout,     \* the structures unpacked from cbytes: [t, rho, s, u, v]
    kpc,      \* KEM: "start" | "keyed" | "encapsed" | "decapsed"
    kkeys,    \* the key pair keygen returned: [pk, sk]
    kencIn,   \* the public key handed to encaps, and the message it drew: [pk, m]
    kenc,     \* what encaps did: [exc, ct, ss]
    kdecIn,   \* the arguments handed to decaps: [ct, sk]
    kdec,     \* what decaps did: [exc, ss]
    spc,      \* signatures: "start" | "keygen_raised" | "keyed" | "sample" | "check"
              \*             | "returned" | "sign_raised" | "verified"
    skeys,    \* what keygen did: [exc, pk, sk, parts]
    sin,      \* the arguments handed to sign: [message, sk]
    sctx,     \* sign's locals before the loop: [key, mu]
    nonce,    \* sign's nonce
    scand,    \* the candidate of the current iteration: [c, z, w] and the mask y
    ssig,     \* the signature sign returned
    vin,      \* the arguments handed to verify: [message, sig, pk]
    vout,     \* what verify did: [exc, ret, at]
    fop,      \* function exercise: the function applied, "idle" before
    fin,      \* its arguments
    fout,     \* what it returned
    runs,     \* the completed calls of a sequence of runs: [op, entropy, args, ...]
    chain,    \* QXBlockchain.chain: the blocks, genesis first
    pending_transactions,  \* QXBlockchain.pending_transactions
    balances, \* QXBlockchain.balances: address -> balance, on the addresses it holds
    wallets,  \* QXBlockchain.wallets: user_id -> wallet data
    difficulty,  \* QXBlockchain.difficulty
    bret,     \* the last call on the blockchain or the node: [op, arg, exc, ret]
    sync_in_progress,  \* QXNode.sync_in_progress
    syncs,    \* the executions of sync_with_network in progress: the task that
              \* runs each and the longest chain it has found so far
    peers     \* QXNode.peers

codecVars == <<cpc, cin, cbytes, cout>>
kemVars == <<kpc, kkeys, kencIn, kenc, kdecIn, kdec>>
sigVars == <<spc, skeys, sin, sctx, nonce, scand, ssig, vin, vout>>
funVars == <<fop, fin, fout>>
runVars == <<urandom, runs>>
ledgerVars == <<chain, pending_transactions, balances, wallets, difficulty, bret,
                sync_in_progress, syncs, peers>>
vars == <<cpc, cin, cbytes, cout, kpc, kkeys, kencIn, kenc, kdecIn, kdec,
          spc, skeys, sin, sctx, nonce, scand, ssig, vin, vout,
          fop, fin, fout, urandom, runs,
          chain, pending_transactions, balances, wallets, difficulty, bret,
          sync_in_progress, syncs, peers>>

NoBytes == << >>
CodecNone == [t |-> << >>, rho |-> << >>, s |-> << >>, u |-> << >>, v |-> << >>]

\* The state of an engine that a specification does not exercise.
CodecIdle ==
    /\ cpc = "idle"
    /\ cin = CodecNone
    /\ cbytes = [pk |-> NoBytes, sk |-> NoBytes, ct |-> NoBytes]
    /\ cout = CodecNone

KemIdle ==
    /\ kpc = "idle"
    /\ kkeys = [pk |-> NoBytes, sk |-> NoBytes]
    /\ kencIn = [pk |-> NoBytes, m |-> NoBytes]
    /\ kenc = [exc |-> "none", ct |-> NoBytes, ss |-> NoBytes]
    /\ kdecIn = [ct |-> NoBytes, sk |-> NoBytes]
    /\ kdec = [exc |-> "none", ss |-> NoBytes]

NoKey == [rho |-> NoBytes, K_bytes |-> NoBytes, s1 |-> << >>, s2 |-> << >>, t |-> << >>]
NoCand == [c |-> << >>, z |-> << >>, w |-> << >>]

SigFresh ==
    /\ skeys = [exc |-> "none", pk |-> NoBytes, sk |-> NoBytes, parts |-> NoKey]
    /\ sin = [message |-> NoBytes, sk |-> NoBytes]
    /\ sctx = [key |-> NoKey, mu |-> NoBytes]
    /\ nonce = 0
    /\ scand = NoCand
    /\ ssig = NoBytes
    /\ vin = [message |-> NoBytes, sig |-> NoBytes, pk |-> NoBytes]
    /\ vout = [exc |-> "none", ret |-> FALSE, at |-> "none"]

SigIdle == spc = "idle" /\ SigFresh

FunIdle == fop = "idle" /\ fin = << >> /\ fout = << >>

RunIdle == urandom = << >> /\ runs = << >>

LedgerIdle ==
    /\ chain = << >>
    /\ pending_transactions = << >>
    /\ balances = << >>
    /\ wallets = << >>
    /\ difficulty = 0
    /\ bret = << >>
    /\ sync_in_progress = FALSE
    /\ syncs = << >>
    /\ peers = {}

(* ------------------------------------------------------------------ *)
(* Codec exercise: pack, then unpack, structures with canonical        *)
(* coefficients                                                        *)
(* ------------------------------------------------------------------ *)
CodecBases == {0, 1, 255, 256, 1664, 3071, 3328}
CodecSteps == {0, 1, 257, 3328}
CodecRhos == {[k \in 1..SeedLen |-> 0], [k \in 1..SeedLen |-> 255],
              [k \in 1..SeedLen |-> (7 * k) % 256]}

\* A polynomial with coefficients base, base+step, ... reduced into [0, Q).
RampPoly(base, step) == [k \in 1..N |-> (base + (k - 1) * step) % Kyber_Q]
RampVec(base, step) == [i \in 1..Kyber_K |-> RampPoly(base + 11 * i, step + i - 1)]

CodecInit ==
    /\ cpc = "in"
    /\ \E b \in CodecBases, st \in CodecSteps, rho \in CodecRhos :
          cin = [t |-> RampVec(b, st), rho |-> rho, s |-> RampVec(b + 5, st + 2),
                 u |-> RampVec(3328 - b, st), v |-> RampPoly(b + 1, st + 3)]
    /\ cbytes = [pk |-> NoBytes, sk |-> NoBytes, ct |-> NoBytes]
    /\ cout = CodecNone
    /\ KemIdle
    /\ SigIdle
    /\ FunIdle
    /\ RunIdle /\ LedgerIdle

CodecPack ==
    /\ cpc = "in"
    /\ cbytes' = [pk |-> Kyber_pack_public_key(cin.t, cin.rho).val,
                  sk |-> Kyber_pack_private_key(cin.s).val,
                  ct |-> Kyber_pack_ciphertext(cin.u, cin.v).val]
    /\ cpc' = "packed"
    /\ UNCHANGED <<cin, cout, kemVars, sigVars, funVars, runVars, ledgerVars>>

CodecUnpack ==
    /\ cpc = "packed"
    /\ cout' = [t |-> Kyber_unpack_public_key(cbytes.pk).t,
                rho |-> Kyber_unpack_public_key(cbytes.pk).rho,
                s |-> Kyber_unpack_private_key(cbytes.sk),
                u |-> Kyber_unpack_ciphertext(cbytes.ct).u,
                v |-> Kyber_unpack_ciphertext(cbytes.ct).v]
    /\ cpc' = "unpacked"
    /\ UNCHANGED <<cin, cbytes, kemVars, sigVars, funVars, runVars, ledgerVars>>

CodecNext == CodecPack \/ CodecUnpack

SpecCodec == CodecInit /\ [][CodecNext]_vars

\* Two little-endian bytes per coefficient, in order.
TwoByteLE(coeffs) ==
    [b \in 1..(2 * Len(coeffs)) |->
        IF b % 2 = 1 THEN coeffs[(b + 1) \div 2] % 256 ELSE coeffs[b \div 2] \div 256]

\* C10. KEM codec is reversible: for structures with coefficients in [0, Q),
\* the packed public key is rho followed by t, the packed private key is s
\* and the packed ciphertext is u followed by v, each coefficient as exactly
\* 2 little-endian bytes; and unpacking the packed bytes gives back
\* (t, rho), s and (u, v).
C10_KemCodecReversible ==
    /\ cpc \in {"packed", "unpacked"} =>
          /\ cbytes.pk = cin.rho \o TwoByteLE(Flatten(cin.t))
          /\ cbytes.sk = TwoByteLE(Flatten(cin.s))
          /\ cbytes.ct = TwoByteLE(Flatten(cin.u)) \o TwoByteLE(cin.v)
    /\ cpc = "unpacked" => cout = cin

\* C10 witness: structures were packed and unpacked, v has a coefficient that
\* needs both bytes, and v differs from the first polynomial of u.
C10_Witness ==
    /\ cpc = "unpacked"
    /\ \E k \in 1..N : cin.v[k] > 255
    /\ cin.v # cin.u[1]

(* ------------------------------------------------------------------ *)
(* KEM: keygen, then encaps on a public key, then decaps               *)
(* ------------------------------------------------------------------ *)
\* os.urandom(32) in keygen, and the message os.urandom draws in encaps.
KemSeeds == {[k \in 1..SeedLen |-> b] : b \in {0, 1, 2, 3}}
KemMsgs == {[k \in 1..MsgLen |-> b] : b \in {0, 1, 165, 255}}

Kyber_PkLen == SeedLen + 2 * Kyber_K * N
Kyber_SkLen == 2 * Kyber_K * N
Kyber_CtLen == 2 * (Kyber_K + 1) * N

\* A caller's byte string: the structure itself, or a truncated buffer.
Truncations(data) == {data, Slice(data, 0, Len(data) - 1), Slice(data, 0, SeedLen), << >>}

KemInit ==
    /\ kpc = "start"
    /\ kkeys = [pk |-> NoBytes, sk |-> NoBytes]
    /\ kencIn = [pk |-> NoBytes, m |-> NoBytes]
    /\ kenc = [exc |-> "none", ct |-> NoBytes, ss |-> NoBytes]
    /\ kdecIn = [ct |-> NoBytes, sk |-> NoBytes]
    /\ kdec = [exc |-> "none", ss |-> NoBytes]
    /\ CodecIdle
    /\ SigIdle
    /\ FunIdle
    /\ RunIdle /\ LedgerIdle

KemKeygen ==
    /\ kpc = "start"
    /\ \E seed \in KemSeeds :
          LET r == Kyber_keygen(seed)
          IN  /\ r.exc = "none"
              /\ kkeys' = r.val
    /\ kpc' = "keyed"
    /\ UNCHANGED <<kencIn, kenc, kdecIn, kdec, codecVars, sigVars, funVars, runVars, ledgerVars>>

KemEncaps ==
    /\ kpc = "keyed"
    /\ \E pk \in Truncations(kkeys.pk), m \in KemMsgs :
          LET r == Kyber_encaps(pk, m)
          IN  /\ kencIn' = [pk |-> pk, m |-> m]
              /\ kenc' = IF r.exc = "none"
                         THEN [exc |-> "none", ct |-> r.val.ct, ss |-> r.val.ss]
                         ELSE [exc |-> r.exc, ct |-> NoBytes, ss |-> NoBytes]
    /\ kpc' = "encapsed"
    /\ UNCHANGED <<kkeys, kdecIn, kdec, codecVars, sigVars, funVars, runVars, ledgerVars>>

KemDecaps ==
    /\ kpc = "encapsed"
    /\ \E ct \in Truncations(kenc.ct), sk \in Truncations(kkeys.sk) :
          LET r == Kyber_decaps(ct, sk)
          IN  /\ kdecIn' = [ct |-> ct, sk |-> sk]
              /\ kdec' = [exc |-> r.exc, ss |-> r.val]
    /\ kpc' = "decapsed"
    /\ UNCHANGED <<kkeys, kencIn, kenc, codecVars, sigVars, funVars, runVars, ledgerVars>>

KemNext == KemKeygen \/ KemEncaps \/ KemDecaps

SpecKem == KemInit /\ [][KemNext]_vars

\* C1. KEM round trip: decaps of the ciphertext encaps returned
\* for keygen's public key, under keygen's private key, returns the shared
\* secret encaps returned.
C1_KemRoundTrip ==
    (/\ kpc = "decapsed"
     /\ kencIn.pk = kkeys.pk
     /\ kdecIn = [ct |-> kenc.ct, sk |-> kkeys.sk])
    => kdec.ss = kenc.ss

\* C1 witness: decaps has run on the ciphertext encaps returned for keygen's
\* public key, with keygen's private key.
C1_Witness ==
    /\ kpc = "decapsed"
    /\ kencIn.pk = kkeys.pk
    /\ kdecIn = [ct |-> kenc.ct, sk |-> kkeys.sk]
    /\ Len(kenc.ss) = SeedLen

(* ------------------------------------------------------------------ *)
(* Signatures: keygen, sign (its rejection loop step by step), verify  *)
(* ------------------------------------------------------------------ *)
\* os.urandom(32) in keygen.
AltSeed(b1, b2) == [k \in 1..SeedLen |-> IF k % 2 = 1 THEN b1 ELSE b2]
SigSeeds == {AltSeed(0, 0), AltSeed(0, 35), AltSeed(1, 37), AltSeed(4, 203), AltSeed(8, 14)}
SigMsgs == {<< >>, <<1>>, <<1, 2>>}

ConstBytes(len, b) == [k \in 1..len |-> b]
ConstVec(len, v) == [i \in 1..len |-> [k \in 1..N |-> v]]

\* Signatures a caller may hand to verify without having the private key:
\* constant byte strings of several lengths, and packed (c, z) with every
\* coefficient of z at, next to or beyond the norm bound.
ForgedSigs ==
    {ConstBytes(len, b) : len \in {0, 1, N, Sig_SigLen - 1, Sig_SigLen, Sig_SigLen + 1},
                          b \in {0, 127, 128, 255}}
    \cup {Sig_pack_signature([k \in 1..N |-> IF k = 1 THEN 1 ELSE 0], ConstVec(Sig_L, v)).val :
            v \in {Sig_GAMMA1 - Sig_BETA - 1, Sig_GAMMA1 - Sig_BETA,
                   -(Sig_GAMMA1 - Sig_BETA), -(Sig_GAMMA1 - Sig_BETA) + 1, Sig_GAMMA1}}

SigInit == spc = "start" /\ SigFresh /\ CodecIdle /\ KemIdle /\ FunIdle /\ RunIdle /\ LedgerIdle

SigKeygen ==
    /\ spc = "start"
    /\ \E seed \in SigSeeds :
          LET r == Sig_keygen(seed)
          IN  /\ skeys' = r
              /\ spc' = IF r.exc = "none" THEN "keyed" ELSE "keygen_raised"
    /\ UNCHANGED <<sin, sctx, nonce, scand, ssig, vin, vout, codecVars, kemVars, funVars, runVars, ledgerVars>>

\* sign(message, private_key) up to "nonce = 0", with keygen's private key
\* or a truncated buffer.
SignStart ==
    /\ spc = "keyed"
    /\ \E message \in SigMsgs, sk \in Truncations(skeys.sk) :
          LET r == Sig_sign_prologue(message, sk)
          IN  /\ sin' = [message |-> message, sk |-> sk]
              /\ sctx' = [key |-> r.key, mu |-> r.mu]
              /\ spc' = IF r.exc = "none" THEN "sample" ELSE "sign_raised"
    /\ nonce' = 0
    /\ UNCHANGED <<skeys, scand, ssig, vin, vout, codecVars, kemVars, funVars, runVars, ledgerVars>>

\* The loop body up to z = y + c*s1.
SignSample ==
    /\ spc = "sample"
    /\ LET r == Sig_sign_candidate(sctx.key, sctx.mu, nonce)
       IN  /\ scand' = [c |-> r.c, z |-> r.z, w |-> r.w, y |-> r.y]
           /\ spc' = IF r.exc = "none" THEN "check" ELSE "sign_raised"
    /\ UNCHANGED <<skeys, sin, sctx, nonce, ssig, vin, vout, codecVars, kemVars, funVars, runVars, ledgerVars>>

\* The two bound checks: "continue" (back to the top of the loop, the nonce
\* as it was), or "break" and return the packed signature.
SignCheck ==
    /\ spc = "check"
    /\ IF Sig_sign_rejects(sctx.key, scand)
       THEN /\ spc' = "sample"
            /\ UNCHANGED ssig
       ELSE LET r == Sig_pack_signature(scand.c, scand.z)
            IN  /\ ssig' = r.val
                /\ spc' = IF r.exc = "none" THEN "returned" ELSE "sign_raised"
    /\ UNCHANGED <<skeys, sin, sctx, nonce, scand, vin, vout, codecVars, kemVars, funVars, runVars, ledgerVars>>

DoVerify(message, sig, pk) ==
    /\ vin' = [message |-> message, sig |-> sig, pk |-> pk]
    /\ vout' = Sig_verify(message, sig, pk)
    /\ spc' = "verified"
    /\ UNCHANGED <<skeys, sin, sctx, nonce, scand, ssig, codecVars, kemVars, funVars, runVars, ledgerVars>>

\* verify on the signature sign returned, for the signed message or another.
VerifySigned ==
    /\ spc = "returned"
    /\ \E message \in SigMsgs : DoVerify(message, ssig, skeys.pk)

\* verify on a signature made without the private key, under keygen's
\* public key or a truncated buffer.
VerifyForged ==
    /\ spc = "keyed"
    /\ \E message \in SigMsgs, sig \in ForgedSigs, pk \in Truncations(skeys.pk) :
          DoVerify(message, sig, pk)

\* Byte strings handed to the wallet engine's verify: public keys and
\* signatures of the right and of wrong lengths.  The coefficients of t are
\* unsigned 4-byte values; their top byte is kept below 128.
Forged2Pks ==
    {ConstBytes(len, b) : len \in {0, SeedLen, Sig2_PkLen - 1, Sig2_PkLen}, b \in {0, 127}}

Forged2Sigs ==
    {ConstBytes(len, b) : len \in {0, SeedLen, Sig2_SigLen - 1, Sig2_SigLen, Sig2_SigLen + 1},
                          b \in {0, 1, 128, 255}}
    \cup {ConstBytes(SeedLen, b)
            \o PackCoeffs(Flatten(ConstVec(Sig2_L, v)), 4, TRUE).val
            \o ConstBytes(Sig2_HintLen, hb) :
            b \in {0, 7}, hb \in {0, 255},
            v \in {5, -5, Sig2_GAMMA1 - Sig2_BETA - 1, Sig2_GAMMA1 - Sig2_BETA,
                    -(Sig2_GAMMA1 - Sig2_BETA)}}

\* verify of crypto/signatures.py on byte strings made without any key.
Verify2Forged ==
    /\ spc = "start"
    /\ \E message \in {<< >>, <<1, 2>>}, sig \in Forged2Sigs, pk \in Forged2Pks :
          /\ vin' = [message |-> message, sig |-> sig, pk |-> pk]
          /\ vout' = Sig2_verify(message, sig, pk)
    /\ spc' = "verified2"
    /\ UNCHANGED <<skeys, sin, sctx, nonce, scand, ssig, codecVars, kemVars, funVars, runVars, ledgerVars>>

\* Private keys handed to the wallet engine's sign: rho, K_seed and zero
\* s1, s2, t packed as _pack_private_key packs them, and truncated buffers.
\* (keygen of that engine returns no key: it hands _matrix_vector_mul a
\* polynomial where a vector is expected.)
Packed2Sk(rb, b1, b2) ==
    ConstBytes(SeedLen, rb) \o AltSeed(b1, b2) \o ConstBytes(Sig2_SkLen - 2 * SeedLen, 0)

Forged2Sks ==
    LET keys == {Packed2Sk(1, 64, 94), Packed2Sk(1, 13, 218), Packed2Sk(0, 0, 0)}
    IN  keys \cup {Slice(k, 0, Sig2_SkLen - 1) : k \in keys} \cup {<< >>}

\* sign(message, sk) of crypto/signatures.py up to "kappa = 0".
Sign2Start ==
    /\ spc = "start"
    /\ \E message \in {<< >>, <<1, 2>>}, sk \in Forged2Sks :
          LET r == Sig2_sign_prologue(message, sk)
          IN  /\ sin' = [message |-> message, sk |-> sk]
              /\ sctx' = [key |-> r.key, mu |-> r.mu]
    /\ nonce' = 0
    /\ spc' = "sample2"
    /\ UNCHANGED <<skeys, scand, ssig, vin, vout, codecVars, kemVars, funVars, runVars, ledgerVars>>

\* The loop body up to z = y + c*s1, for kappa below the bound of the model.
Sign2Sample ==
    /\ spc = "sample2"
    /\ nonce < MaxKappa
    /\ LET r == Sig2_sign_candidate(sctx.key, sctx.mu, nonce)
       IN  /\ scand' = [c |-> r.c, z |-> r.z, w |-> r.w]
           /\ spc' = IF r.exc = "none" THEN "check2" ELSE "sign2_raised"
    /\ UNCHANGED <<skeys, sin, sctx, nonce, ssig, vin, vout, codecVars, kemVars, funVars, runVars, ledgerVars>>

\* The two norm checks: "kappa += 1; continue", or the hint and the return.
Sign2Check ==
    /\ spc = "check2"
    /\ IF Sig2_sign_rejects(sctx.key, scand)
       THEN /\ nonce' = nonce + 1
            /\ spc' = "sample2"
            /\ UNCHANGED ssig
       ELSE LET r == Sig2_sign_finish(sctx.key, scand)
            IN  /\ ssig' = r.val
                /\ spc' = IF r.exc = "none" THEN "returned2" ELSE "sign2_raised"
                /\ UNCHANGED nonce
    /\ UNCHANGED <<skeys, sin, sctx, scand, vin, vout, codecVars, kemVars, funVars, runVars, ledgerVars>>

SigNext ==
    \/ SigKeygen \/ SignStart \/ SignSample \/ SignCheck
    \/ VerifySigned \/ VerifyForged \/ Verify2Forged
    \/ Sign2Start \/ Sign2Sample \/ Sign2Check

SpecSig == SigInit /\ [][SigNext]_vars

\* A statement of the loop of sign is executed: control leaves the position
\* it is at, for another position of the loop or out of sign.
SignRuns ==
    /\ spc \in {"sample", "check"}
    /\ spc' \in {"sample", "check", "returned", "sign_raised"}

\* The interpreter keeps running sign while sign has a next statement.
SpecSigFair == SpecSig /\ WF_spc(SignRuns)

SpecCrypto == (KemInit \/ SigInit) /\ [][KemNext \/ SigNext]_vars

AbsBelow(v, bound) == \A i \in 1..Len(v) : \A k \in 1..N : Abs(v[i][k]) < bound

\* sign was called on keygen's private key and returned ssig.
SignedWithKey == ssig # NoBytes /\ sin.sk = skeys.sk

\* C2. Signature round trip: whenever sign(m, sk) returns a signature s for
\* a key pair (pk, sk) returned by keygen, verify(m, s, pk) returns True.
C2_SignVerifyRoundTrip ==
    (/\ spc = "verified"
     /\ SignedWithKey
     /\ vin = [message |-> sin.message, sig |-> ssig, pk |-> skeys.pk])
    => vout.ret = TRUE

\* C2 witness: verify has run on the message signed, the signature sign
\* returned for keygen's private key, and keygen's public key.
C2_Witness ==
    /\ spc = "verified"
    /\ SignedWithKey
    /\ vin = [message |-> sin.message, sig |-> ssig, pk |-> skeys.pk]

\* C3. verify is total: for every message, signature and public key byte
\* string, of any length, verify of either engine returns True or False and
\* raises nothing.
C3_VerifyTotal ==
    spc \in {"verified", "verified2"} => (vout.exc = "none" /\ vout.ret \in BOOLEAN)

\* C3 witness: verify has answered for a signature and a public key that are
\* both shorter than their structures.
C3_Witness ==
    /\ spc = "verified"
    /\ Len(vin.sig) < Sig_SigLen
    /\ Len(vin.pk) < Sig_PkLen

\* C4. verify bound enforcement: for a signature whose unpacked z has a
\* coefficient of absolute value >= GAMMA1 - BETA, verify returns False, and
\* does so at the bound check, before the matrix is expanded.
C4_VerifyBoundEnforced ==
    (/\ spc = "verified"
     /\ ~AbsBelow(Sig_unpack_signature(vin.sig).z, Sig_GAMMA1 - Sig_BETA))
    => (vout.ret = FALSE /\ vout.at = "bounds")

\* C4 witness: verify has run on a signature of the right length whose z is
\* out of bound.
C4_Witness ==
    /\ spc = "verified"
    /\ Len(vin.sig) = Sig_SigLen
    /\ ~AbsBelow(Sig_unpack_signature(vin.sig).z, Sig_GAMMA1 - Sig_BETA)

\* C5. sign never loops forever: once in its rejection loop, sign eventually
\* returns a signature or fails.
C5_SignTerminates ==
    (spc = "sample") ~> (spc \in {"returned", "sign_raised"})

\* C5 witness: sign is back at the top of its loop after a rejected
\* candidate.
C5_Witness ==
    /\ spc = "sample"
    /\ scand # NoCand
    /\ Sig_sign_rejects(sctx.key, scand)

\* C6. Every signature sign returns carries a z whose every coefficient has
\* absolute value < GAMMA1 - BETA.  The sign of crypto/signatures.py returns
\* no signature at all.
C6_SignedZBounded ==
    /\ (spc \in {"returned", "verified"} /\ ssig # NoBytes)
          => AbsBelow(Sig_unpack_signature(ssig).z, Sig_GAMMA1 - Sig_BETA)
    /\ spc \in {"sample2", "check2", "sign2_raised", "returned2"}
          => (spc # "returned2" /\ ssig = NoBytes)

\* C6 witness: sign has returned a signature whose z is not all zero.
C6_Witness ==
    /\ spc = "returned"
    /\ Len(ssig) = Sig_SigLen
    /\ \E i \in 1..Sig_L : \E k \in 1..N : Sig_unpack_signature(ssig).z[i][k] # 0

\* C8. Wrong-length inputs are reported: encaps, decaps and sign given a
\* public key, private key or ciphertext whose length is not that of the
\* structure fail with InvalidLength and return nothing.
C8_WrongLengthReported ==
    /\ (kpc \in {"encapsed", "decapsed"} /\ Len(kencIn.pk) # Kyber_PkLen)
          => (kenc.exc = "InvalidLength" /\ kenc.ct = NoBytes /\ kenc.ss = NoBytes)
    /\ (kpc = "decapsed" /\ (Len(kdecIn.ct) # Kyber_CtLen \/ Len(kdecIn.sk) # Kyber_SkLen))
          => (kdec.exc = "InvalidLength" /\ kdec.ss = NoBytes)
    /\ (spc \in {"sample", "check", "returned", "sign_raised", "verified"}
        /\ sin # [message |-> NoBytes, sk |-> NoBytes]
        /\ Len(sin.sk) # Sig_SkLen)
          => (spc = "sign_raised" /\ ssig = NoBytes)

\* C8 witness: decaps has returned for a truncated ciphertext.
C8_Witness ==
    /\ kpc = "decapsed"
    /\ Len(kdecIn.ct) < Kyber_CtLen
    /\ kdec.exc = "none"

\* C9. Signature key generation succeeds for every seed, and unpacking the
\* private key it returns gives back the (rho, K_seed, s1, s2, t) it computed.
C9_KeygenSucceedsReversible ==
    spc \in {"keygen_raised", "keyed"}
    => (skeys.exc = "none" /\ Sig_unpack_private_key(skeys.sk) = skeys.parts)

\* C9 witness: keygen has raised.
C9_Witness ==
    /\ spc = "keygen_raised"
    /\ skeys.exc = "OverflowError"

(* ------------------------------------------------------------------ *)
(* Two runs of the signature engine side by side: what a call returns  *)
(* against what it was given and what os.urandom held when it ran      *)
(* ------------------------------------------------------------------ *)
RunSeeds == {AltSeed(4, 203), AltSeed(0, 35)}
RunDraws == {<<a, b>> : a \in RunSeeds, b \in RunSeeds}
RunMsgs == {<< >>, <<1, 2>>}
RunSks == {Sig_keygen(seed).sk : seed \in RunSeeds}

RunsInit ==
    /\ runs = << >>
    /\ urandom \in RunDraws
    /\ CodecIdle /\ KemIdle /\ SigIdle /\ FunIdle /\ LedgerIdle

\* keygen(): its one os.urandom(32) call returns the head of urandom.
RunKeygen ==
    /\ Len(runs) < 2
    /\ LET seed == urandom[1]
           r == Sig_keygen(seed)
       IN  runs' = Append(runs, [op |-> "keygen", entropy |-> urandom, args |-> <<seed>>,
                                 mu |-> NoBytes, mask_seed |-> NoBytes,
                                 out |-> [exc |-> r.exc, pk |-> r.pk, sk |-> r.sk]])
    /\ urandom' \in RunDraws
    /\ UNCHANGED <<codecVars, kemVars, sigVars, funVars, ledgerVars>>

\* sign(message, sk): no os.urandom call; mu and the seed of the first mask
\* are recorded next to the result.
RunSign ==
    /\ Len(runs) < 2
    /\ \E message \in RunMsgs, sk \in RunSks :
          LET pro == Sig_sign_prologue(message, sk)
          IN  runs' = Append(runs, [op |-> "sign", entropy |-> urandom,
                                    args |-> <<message, sk>>,
                                    mu |-> pro.mu,
                                    mask_seed |-> Sig_mask_seed(pro.key, pro.mu, 0),
                                    out |-> Sig_sign(message, sk)])
    /\ urandom' \in RunDraws
    /\ UNCHANGED <<codecVars, kemVars, sigVars, funVars, ledgerVars>>

RunsNext == RunKeygen \/ RunSign

SpecRuns == RunsInit /\ [][RunsNext]_vars

SameCall(i, j) == runs[i].op = runs[j].op /\ runs[i].args = runs[j].args

RingPoly(x, y, step) ==
    [k \in 1..N |-> IF k % 2 = 1 THEN x + step * (k - 1) ELSE y - step * k]

\* Reduced polynomials, and the unreduced ones the samplers hand over:
\* negative mask and challenge coefficients, multiples of q.
RingPolys(q) ==
    {RingPoly(0, 0, 0), RingPoly(1, q - 1, 0), RingPoly(q - 1, q - 1, 0),
     RingPoly(q \div 2, 1000, 1), RingPoly(3, 500, 7),
     RingPoly(-1, 1, 0), RingPoly(-2, -1, 0), RingPoly(-131072, 131072, 1),
     RingPoly(q, -q, 1), RingPoly(2 * q + 5, -3 * q, 0)}

RingVec(a, b, len) == [i \in 1..len |-> IF i % 2 = 1 THEN a ELSE b]
RingMat(a, b, rows, cols) ==
    [i \in 1..rows |-> [j \in 1..cols |-> IF (i + j) % 2 = 0 THEN a ELSE b]]

RingInit ==
    /\ fop = "idle"
    /\ \E q \in {Kyber_Q, Sig_Q} : \E a \in RingPolys(q), b \in RingPolys(q) :
          fin = [q |-> q, a |-> a, b |-> b]
    /\ fout = << >>
    /\ CodecIdle /\ KemIdle /\ SigIdle /\ RunIdle /\ LedgerIdle

\* The dimensions the engine with modulus q gives its vectors and matrices.
RingRows(q) == IF q = Kyber_Q THEN Kyber_K ELSE Sig_K
RingCols(q) == IF q = Kyber_Q THEN Kyber_K ELSE Sig_L

\* The result of every function is recorded as a vector of polynomials.
ApplyPolyAdd ==
    /\ fop = "idle"
    /\ fop' = "poly_add"
    /\ fout' = <<PolyAdd(fin.a, fin.b, fin.q)>>
    /\ UNCHANGED <<fin, codecVars, kemVars, sigVars, runVars, ledgerVars>>

ApplyPolySub ==
    /\ fop = "idle"
    /\ fop' = "poly_sub"
    /\ fout' = <<PolySub(fin.a, fin.b, fin.q)>>
    /\ UNCHANGED <<fin, codecVars, kemVars, sigVars, runVars, ledgerVars>>

ApplyPolyMul ==
    /\ fop = "idle"
    /\ fop' = "poly_mul"
    /\ fout' = <<PolyMul(fin.a, fin.b, fin.q)>>
    /\ UNCHANGED <<fin, codecVars, kemVars, sigVars, runVars, ledgerVars>>

ApplyVectorAdd ==
    /\ fop = "idle"
    /\ fop' = "vector_add"
    /\ fout' = VectorAdd(RingVec(fin.a, fin.b, RingCols(fin.q)),
                       RingVec(fin.b, fin.a, RingCols(fin.q)), fin.q)
    /\ UNCHANGED <<fin, codecVars, kemVars, sigVars, runVars, ledgerVars>>

ApplyVectorSub ==
    /\ fop = "idle"
    /\ fin.q = Sig_Q
    /\ fop' = "vector_sub"
    /\ fout' = VectorSub(RingVec(fin.a, fin.b, Sig_K), RingVec(fin.b, fin.a, Sig_K), fin.q)
    /\ UNCHANGED <<fin, codecVars, kemVars, sigVars, runVars, ledgerVars>>

ApplyScalarVectorMul ==
    /\ fop = "idle"
    /\ fin.q = Sig_Q
    /\ fop' = "scalar_vector_mul"
    /\ fout' = Sig_scalar_vector_mul(fin.a, RingVec(fin.b, fin.a, Sig_L))
    /\ UNCHANGED <<fin, codecVars, kemVars, sigVars, runVars, ledgerVars>>

ApplyMatrixVectorMul ==
    /\ fop = "idle"
    /\ fop' = "matrix_vector_mul"
    /\ fout' = MatrixVectorMul(RingMat(fin.a, fin.b, RingRows(fin.q), RingCols(fin.q)),
                             RingVec(fin.b, fin.a, RingCols(fin.q)), fin.q)
    /\ UNCHANGED <<fin, codecVars, kemVars, sigVars, runVars, ledgerVars>>

ApplyVectorDotProduct ==
    /\ fop = "idle"
    /\ fin.q = Kyber_Q
    /\ fop' = "vector_dot_product"
    /\ fout' = <<VectorDotProduct(RingVec(fin.a, fin.b, Kyber_K),
                                RingVec(fin.b, fin.a, Kyber_K), fin.q)>>
    /\ UNCHANGED <<fin, codecVars, kemVars, sigVars, runVars, ledgerVars>>

RingNext ==
    \/ ApplyPolyAdd \/ ApplyPolySub \/ ApplyPolyMul
    \/ ApplyVectorAdd \/ ApplyVectorSub \/ ApplyScalarVectorMul
    \/ ApplyMatrixVectorMul \/ ApplyVectorDotProduct

SpecRing == RingInit /\ [][RingNext]_vars

Canonical(poly, q) == \A k \in 1..N : poly[k] \in 0..(q - 1)

\* C12. Every coefficient of the result of _poly_add, _poly_sub, _poly_mul
\* and of their vector and matrix lifts lies in [0, Q), whatever integers the
\* inputs hold.
C12_ResultsCanonical ==
    fop # "idle" => \A i \in 1..Len(fout) : Canonical(fout[i], fin.q)

\* C12 witness: a subtraction whose first operand is smaller than the second
\* and holds a negative coefficient has been carried out.
C12_Witness ==
    /\ fop = "poly_sub"
    /\ \E k \in 1..N : fin.a[k] < 0 /\ fin.a[k] < fin.b[k]

\* Coefficient k (from 0) of the negacyclic convolution: the sum of a[i]*b[j]
\* over i + j = k minus the sum over i + j = k + N, mod q.
RECURSIVE ConvolutionSum(_, _, _, _, _)
ConvolutionSum(a, b, q, k, i) ==
    IF i = N THEN 0
    ELSE (IF i <= k THEN MulMod(a[i + 1], b[k - i + 1], q)
                    ELSE -MulMod(a[i + 1], b[k - i + N + 1], q))
         + ConvolutionSum(a, b, q, k, i + 1)

\* C16. For a, b with coefficients in [0, Q), coefficient k of _poly_mul(a, b)
\* is (sum over i+j = k of a[i]*b[j] - sum over i+j = k+N of a[i]*b[j]) mod Q.
C16_MulIsNegacyclic ==
    (fop = "poly_mul" /\ Canonical(fin.a, fin.q) /\ Canonical(fin.b, fin.q))
    => \A k \in 1..N : fout[1][k] = ConvolutionSum(fin.a, fin.b, fin.q, k - 1, 0) % fin.q

\* C16 witness: two reduced polynomials have been multiplied whose product
\* has wrapped terms that do not cancel.
C16_Witness ==
    /\ fop = "poly_mul"
    /\ Canonical(fin.a, fin.q) /\ Canonical(fin.b, fin.q)
    /\ fout[1] # PolyMul_cyclic(fin.a, fin.b, fin.q)

(* ------------------------------------------------------------------ *)
(* The signing loop from one iteration to the next                     *)
(* ------------------------------------------------------------------ *)
\* C13. Whenever an iteration of sign rejects its candidate, the nonce of the
\* next iteration is strictly greater (both engines: nonce in
\* quantum_signatures.py, kappa in signatures.py).
C13_RejectionAdvancesNonce ==
    [][((spc = "check" /\ spc' = "sample") \/ (spc = "check2" /\ spc' = "sample2"))
          => nonce' > nonce]_vars

\* C13 witness: sign of quantum_signatures.py has rejected a candidate and is
\* about to derive the mask of the next iteration from the seed it used for
\* the rejected one.
C13_Witness ==
    /\ spc = "sample"
    /\ scand # NoCand
    /\ Sig_sign_rejects(sctx.key, scand)
    /\ Sig_sample_mask(Sig_mask_seed(sctx.key, sctx.mu, nonce)) = scand.y

(* ------------------------------------------------------------------ *)
(* The mask seed of two sign calls under one private key               *)
(* ------------------------------------------------------------------ *)
SignedSameKey(i, j) ==
    /\ runs[i].op = "sign" /\ runs[j].op = "sign"
    /\ runs[i].args[2] = runs[j].args[2]

\* C14. Two sign calls under the same private key, at the same nonce, on
\* messages with different digests mu derive their masks from different seed
\* inputs: the mask seed is (K_seed, mu, nonce).
C14_MaskDependsOnMessage ==
    \A i \in 1..Len(runs) : \A j \in 1..Len(runs) :
        (SignedSameKey(i, j) /\ runs[i].mu # runs[j].mu)
        => runs[i].mask_seed # runs[j].mask_seed

\* C14 witness: sign has run twice under one private key on two messages
\* whose digests differ.
C14_Witness ==
    /\ Len(runs) = 2
    /\ SignedSameKey(1, 2)
    /\ runs[1].args[1] # runs[2].args[1]
    /\ runs[1].mu # runs[2].mu
    /\ Len(runs[1].args[2]) = Sig_SkLen

(* ------------------------------------------------------------------ *)
(* KEM message codec: bits to polynomial and back                      *)
(* ------------------------------------------------------------------ *)
\* Coefficients around 0, Q/4, Q/2, 3Q/4 and Q.
MsgCoeffs == {0, 1, 832, 833, 1000, 1664, 1665, 2000, 2496, 2497, 3000, 3328}
MsgPolys == {[k \in 1..N |-> IF k % 2 = 1 THEN x ELSE y] : x \in MsgCoeffs, y \in MsgCoeffs}
MsgBytes == {[b \in 1..MsgLen |-> v] : v \in {0, 1, 2, 15, 128, 165, 240, 255}}

MsgInit ==
    /\ fop = "idle"
    /\ \/ \E poly \in MsgPolys : fin = [kind |-> "poly", poly |-> poly]
       \/ \E m \in MsgBytes : fin = [kind |-> "bytes", m |-> m]
    /\ fout = << >>
    /\ CodecIdle /\ KemIdle /\ SigIdle /\ RunIdle /\ LedgerIdle

ApplyEncodeMessage ==
    /\ fop = "idle"
    /\ fin.kind = "poly"
    /\ fop' = "encode_message"
    /\ fout' = Kyber_encode_message(fin.poly)
    /\ UNCHANGED <<fin, codecVars, kemVars, sigVars, runVars, ledgerVars>>

ApplyDecodeMessage ==
    /\ fop = "idle"
    /\ fin.kind = "bytes"
    /\ fop' = "decode_message"
    /\ fout' = Kyber_decode_message(fin.m)
    /\ UNCHANGED <<fin, codecVars, kemVars, sigVars, runVars, ledgerVars>>

\* _encode_message applied to what _decode_message returned.
ApplyDecodeEncode ==
    /\ fop = "idle"
    /\ fin.kind = "bytes"
    /\ fop' = "decode_encode"
    /\ fout' = Kyber_encode_message(Kyber_decode_message(fin.m))
    /\ UNCHANGED <<fin, codecVars, kemVars, sigVars, runVars, ledgerVars>>

MsgNext == ApplyEncodeMessage \/ ApplyDecodeMessage \/ ApplyDecodeEncode

SpecMsg == MsgInit /\ [][MsgNext]_vars

\* 1 when x is nearer to floor(Q/2) than to 0, the distance to 0 taken mod Q.
NearerBit(x) ==
    IF Abs(x - Kyber_Q \div 2) < Min(x, Kyber_Q - x) THEN 1 ELSE 0

BitOf(m, i) == (m[(i \div 8) + 1] \div (2 ^ (i % 8))) % 2

\* C15. _encode_message outputs bit 1 for a coefficient exactly when it is
\* nearer to floor(Q/2) than to 0, and the coefficient floor(Q/2) that
\* _decode_message produces for a 1 bit decodes back to 1.
C15_DecodeRoundsToNearer ==
    /\ fop = "encode_message"
          => \A i \in 0..(N - 1) : i \div 8 < MsgLen
                => BitOf(fout, i) = NearerBit(fin.poly[i + 1])
    /\ fop = "decode_encode" => fout = fin.m

\* C15 witness: _encode_message has been applied to the polynomial
\* _decode_message returned for a message with a 1 bit.
C15_Witness ==
    /\ fop = "decode_encode"
    /\ \E i \in 0..(N - 1) : i \div 8 < MsgLen /\ BitOf(fin.m, i) = 1

(* ------------------------------------------------------------------ *)
(* Seed-derived samplers applied to seeds                              *)
(* ------------------------------------------------------------------ *)
SampleSeeds == {<<a, b>> : a \in {0, 1, 3, 8, 17, 19}, b \in {0, 7, 80, 160, 184, 200}}

SampleInit ==
    /\ fop = "idle"
    /\ \E seed \in SampleSeeds : fin = [seed |-> seed]
    /\ fout = << >>
    /\ CodecIdle /\ KemIdle /\ SigIdle /\ RunIdle /\ LedgerIdle

\* _sample_uniform_poly has no raise statement: it returns poly.
ApplySampleUniformPoly ==
    /\ fop = "idle"
    /\ fop' = "sample_uniform_poly"
    /\ fout' = Ok(Kyber_sample_uniform_poly(fin.seed))
    /\ UNCHANGED <<fin, codecVars, kemVars, sigVars, runVars, ledgerVars>>

\* The polynomials, and next to each the stream it was computed from.
ApplySamplePolyCbd ==
    /\ fop = "idle"
    /\ fop' = "sample_poly_cbd"
    /\ fout' = [polys |-> Kyber_sample_poly_cbd(fin.seed, Kyber_ETA1, Kyber_K),
                streams |-> [i \in 1..Kyber_K |-> Kyber_cbd_stream(fin.seed, Kyber_ETA1, i - 1)],
                eta |-> Kyber_ETA1, q |-> Kyber_Q]
    /\ UNCHANGED <<fin, codecVars, kemVars, sigVars, runVars, ledgerVars>>

ApplySampleInBall ==
    /\ fop = "idle"
    /\ fop' = "sample_in_ball"
    /\ fout' = [polys |-> Sig_sample_in_ball(fin.seed, Sig_L),
                streams |-> [i \in 1..Sig_L |-> Sig_ball_stream(fin.seed, i - 1)],
                eta |-> Sig_ETA, q |-> Sig_Q]
    /\ UNCHANGED <<fin, codecVars, kemVars, sigVars, runVars, ledgerVars>>

ApplySampleChallenge ==
    /\ fop = "idle"
    /\ fop' = "sample_challenge"
    /\ fout' = Sig_sample_challenge(fin.seed)
    /\ UNCHANGED <<fin, codecVars, kemVars, sigVars, runVars, ledgerVars>>

SampleNext ==
    \/ ApplySampleUniformPoly \/ ApplySamplePolyCbd
    \/ ApplySampleInBall \/ ApplySampleChallenge

SpecSample == SampleInit /\ [][SampleNext]_vars

\* C17. The polynomial _sample_challenge returns has exactly TAU nonzero
\* coefficients, each +1 or -1, and all other coefficients 0.
C17_ChallengeWeight ==
    fop = "sample_challenge"
    => /\ \A k \in 1..N : fout[k] \in {-1, 0, 1}
       /\ Cardinality({k \in 1..N : fout[k] # 0}) = Sig_TAU

\* C17 witness: _sample_challenge has returned a polynomial with +1 and -1
\* coefficients.
C17_Witness ==
    /\ fop = "sample_challenge"
    /\ \E k \in 1..N : fout[k] = 1
    /\ \E k \in 1..N : fout[k] = -1

\* The bit of the stream at bit_pos, for a position the stream holds.
DrawnBit(stream, bit_pos) == (stream[(bit_pos \div 8) + 1] \div (2 ^ (bit_pos % 8))) % 2

RECURSIVE DrawnBits(_, _, _)
DrawnBits(stream, first, cnt) ==
    IF cnt = 0 THEN 0 ELSE DrawnBit(stream, first) + DrawnBits(stream, first + 1, cnt - 1)

\* C18. In _sample_poly_cbd and in the signature engine's _sample_in_ball,
\* for every index i all 2*eta bit positions of coefficient i lie inside the
\* stream that was drawn, and the coefficient is (sum of the first eta bits
\* minus sum of the next eta bits) mod Q.
C18_CbdCoversEveryCoefficient ==
    fop \in {"sample_poly_cbd", "sample_in_ball"}
    => \A p \in 1..Len(fout.polys) : \A i \in 0..(N - 1) :
          /\ 2 * fout.eta * i + 2 * fout.eta - 1 < 8 * Len(fout.streams[p])
          /\ fout.polys[p][i + 1]
               = (DrawnBits(fout.streams[p], 2 * fout.eta * i, fout.eta)
                  - DrawnBits(fout.streams[p], 2 * fout.eta * i + fout.eta, fout.eta)) % fout.q

\* C18 witness: the signature engine's _sample_in_ball has returned a
\* polynomial with a nonzero coefficient.
C18_Witness ==
    /\ fop = "sample_in_ball"
    /\ \E i \in 1..N : fout.polys[1][i] # 0

\* The two 12-bit candidates of every 3-byte chunk, in stream order.
StreamCandidates(stream) ==
    [c \in 1..(2 * (Len(stream) \div 3)) |->
        LET i == 3 * ((c - 1) \div 2)
        IN  IF c % 2 = 1 THEN stream[i + 1] + 256 * (stream[i + 2] % 16)
            ELSE (stream[i + 2] \div 16) + 16 * stream[i + 3]]

IsBelowQ(x) == x < Kyber_Q

\* C19. _sample_uniform_poly fills the N coefficients with the stream
\* candidates that are < Q, in stream order, and fails with a generation
\* fault when the stream yields fewer than N of them.
C19_UniformNeverShort ==
    fop = "sample_uniform_poly"
    => LET valid == SelectSeq(StreamCandidates(Kyber_shake128(fin.seed, 3 * N)), IsBelowQ)
       IN  IF Len(valid) >= N
           THEN fout.exc = "none" /\ fout.val = SubSeq(valid, 1, N)
           ELSE fout.exc # "none"

\* C19 witness: _sample_uniform_poly has run on a seed whose stream holds
\* fewer than N candidates below Q.
C19_Witness ==
    /\ fop = "sample_uniform_poly"
    /\ Len(SelectSeq(StreamCandidates(Kyber_shake128(fin.seed, 3 * N)), IsBelowQ)) < N

(* ------------------------------------------------------------------ *)
(* Hints of crypto/signatures.py: made by the signer, used by the      *)
(* verifier                                                            *)
(* ------------------------------------------------------------------ *)
\* Reduced coefficients around the multiples of 2*GAMMA2 and around 0 = Q.
HintWs == {0, 5, 2 * Sig2_GAMMA2 - 1, 2 * Sig2_GAMMA2, 2 * Sig2_GAMMA2 + 5, Sig2_Q - 1}
HintCs2s == {0, 1, 3, Sig2_GAMMA2, Sig2_Q - 3, Sig2_Q - 1}

HintInit ==
    /\ fop = "idle"
    /\ \E x \in HintWs, y \in HintWs, u \in HintCs2s, v \in HintCs2s :
          fin = [w |-> [i \in 1..Sig2_K |-> [k \in 1..N |-> IF (i + k) % 2 = 0 THEN x ELSE y]],
                 cs2 |-> [i \in 1..Sig2_K |-> [k \in 1..N |-> IF k <= N \div 2 THEN u ELSE v]]]
    /\ fout = << >>
    /\ CodecIdle /\ KemIdle /\ SigIdle /\ RunIdle /\ LedgerIdle

\* The signer: h = _make_hint(., w, cs2).  The first argument is not read by
\* _make_hint; the challenge it stands for is left out.
ApplyMakeHint ==
    /\ fop = "idle"
    /\ fop' = "make_hint"
    /\ fout' = [h |-> Sig2_make_hint(<< >>, fin.w, fin.cs2), w1 |-> << >>]
    /\ UNCHANGED <<fin, codecVars, kemVars, sigVars, runVars, ledgerVars>>

\* The verifier: _use_hint(h, w') on the vector w' = w - cs2 it recomputes.
ApplyUseHint ==
    /\ fop = "make_hint"
    /\ fop' = "use_hint"
    /\ fout' = [h |-> fout.h,
                w1 |-> Sig2_use_hint(fout.h, VectorSub(fin.w, fin.cs2, Sig2_Q))]
    /\ UNCHANGED <<fin, codecVars, kemVars, sigVars, runVars, ledgerVars>>

HintNext == ApplyMakeHint \/ ApplyUseHint

SpecHint == HintInit /\ [][HintNext]_vars

\* C20. For w and cs2 with coefficients in [0, Q), _use_hint applied to the
\* hint _make_hint(., w, cs2) made and to (w - cs2) mod Q returns
\* _high_bits(w).
C20_HintRecoversHighBits ==
    fop = "use_hint" => fout.w1 = Sig2_high_bits(fin.w)

\* C20 witness: a hint with set and unset bits has been used on w - cs2.
C20_Witness ==
    /\ fop = "use_hint"
    /\ \E idx \in 1..Len(fout.h) : fout.h[idx] = 1
    /\ \E idx \in 1..Len(fout.h) : fout.h[idx] = 0

(* ------------------------------------------------------------------ *)
(* Transactions and blocks (core/block.py)                             *)
(* ------------------------------------------------------------------ *)
\* Strings are sequences of character codes, hex digests are sequences of
\* hex digits (0..15), None and the empty string are << >>.  Amounts, fees
\* and timestamps are integers (floats in the source).
\*
\* hashlib.sha3_256(...).hexdigest() is stood in for by HashLen hex digits
\* derived from Digest.  The digest of a block header is given exactly
\* min(nonce, HashLen) leading zeros, so that the proof-of-work search of
\* mine_block, which tries nonce = 1, 2, ... until the digest starts with
\* `difficulty` zeros, is short; it is a function of the whole header.
None == << >>

\* F applied to the value of x: a LET whose value is computed once.
Once(x, F(_)) == CHOOSE r \in {F(v) : v \in {x}} : TRUE

Sha3Hex(data) ==
    LET x == Digest(3, data) IN [k \in 1..HashLen |-> XofByte(x, k) % 16]

Sha3HexHeader(data, blk_nonce) ==
    LET x == Digest(4, data)
    IN  [k \in 1..HashLen |->
            IF k <= blk_nonce THEN 0
            ELSE IF k = blk_nonce + 1 THEN 1 + (XofByte(x, k) % 15)
            ELSE XofByte(x, k) % 16]

\* str.encode() of a hex digest: the character codes of its digits.
Encode(hex) ==
    [k \in 1..Len(hex) |-> IF hex[k] < 10 THEN 48 + hex[k] ELSE 87 + hex[k]]

\* json.dumps(..., sort_keys=True): the values in key order, each after a
\* separator; numbers as 4 bytes.
JsonNum(v) == <<44>> \o ToBytes(v, 4, FALSE)
JsonStr(s) == <<34>> \o s

SystemSender == <<48>>
GenesisRecipient == <<103, 101, 110>>
GenesisAddress == <<81, 88, 49, 71>>

Transaction_calculate_hash(tx) ==
    [tx EXCEPT !.transaction_hash =
        Sha3Hex(JsonNum(tx.amount) \o JsonStr(tx.data) \o JsonNum(tx.fee)
                \o JsonStr(tx.recipient) \o JsonStr(tx.sender) \o JsonNum(tx.timestamp))]

\* Transaction(...): __post_init__ computes the hash only when none is given.
Transaction(sender, recipient, amount, fee, timestamp, data, signature, public_key, transaction_hash) ==
    Once([sender |-> sender, recipient |-> recipient, amount |-> amount, fee |-> fee,
          timestamp |-> timestamp, data |-> data, signature |-> signature,
          public_key |-> public_key, transaction_hash |-> transaction_hash],
         LAMBDA tx : IF tx.transaction_hash = None THEN Transaction_calculate_hash(tx) ELSE tx)

\* Transaction.sign: the signature QuantumSignature.sign returns, or how it ends.
Transaction_sign(tx, private_key) ==
    Once(Sig_sign(Encode(tx.transaction_hash), private_key),
         LAMBDA r : IF r.exc # "none" THEN r ELSE Ok([tx EXCEPT !.signature = r.val]))

Transaction_verify_signature(tx) ==
    IF tx.signature = None \/ tx.public_key = None THEN FALSE
    ELSE Sig_verify(Encode(tx.transaction_hash), tx.signature, tx.public_key).ret

\* One level of the Merkle tree: pairs (the last one with itself) hashed.
MerkleLevel(tx_hashes) ==
    [p \in 1..((Len(tx_hashes) + 1) \div 2) |->
        LET left == tx_hashes[2 * p - 1]
            right == IF 2 * p <= Len(tx_hashes) THEN tx_hashes[2 * p] ELSE left
        IN  Sha3Hex(Encode(left \o right))]

RECURSIVE MerkleLoop(_)
MerkleLoop(tx_hashes) ==
    IF Len(tx_hashes) > 1
    THEN Once(MerkleLevel(tx_hashes), LAMBDA next_level : MerkleLoop(next_level))
    ELSE tx_hashes[1]

\* calculate_merkle_root and calculate_hash store what they compute.
Block_calculate_merkle_root(b) ==
    [b EXCEPT !.merkle_root =
        IF b.transactions = << >> THEN Sha3Hex(<< >>)
        ELSE MerkleLoop([i \in 1..Len(b.transactions) |-> b.transactions[i].transaction_hash])]

Block_calculate_hash(b) ==
    [b EXCEPT !.block_hash =
        Sha3HexHeader(JsonNum(b.difficulty) \o JsonNum(b.index) \o JsonStr(b.merkle_root)
                      \o JsonStr(b.miner_address) \o JsonNum(b.nonce)
                      \o JsonStr(b.previous_hash) \o JsonNum(b.timestamp), b.nonce)]

\* Block(...): __post_init__ computes the Merkle root and the hash that
\* are not given.
Block(index, timestamp, transactions, previous_hash, blk_nonce, blk_difficulty, miner_address, block_reward, merkle_root, block_hash) ==
    Once([index |-> index, timestamp |-> timestamp, transactions |-> transactions,
          previous_hash |-> previous_hash, nonce |-> blk_nonce, difficulty |-> blk_difficulty,
          miner_address |-> miner_address, block_reward |-> block_reward,
          merkle_root |-> merkle_root, block_hash |-> block_hash],
         LAMBDA b0 :
            Once(IF b0.merkle_root = None THEN Block_calculate_merkle_root(b0) ELSE b0,
                 LAMBDA b1 : IF b1.block_hash = None THEN Block_calculate_hash(b1) ELSE b1))

\* block_hash.startswith("0" * difficulty)
StartsWithZeros(hex, count) ==
    Len(hex) >= count /\ \A k \in 1..count : hex[k] = 0

RECURSIVE MineLoop(_)
MineLoop(b) ==
    IF StartsWithZeros(b.block_hash, b.difficulty) THEN b
    ELSE Once(Block_calculate_hash([b EXCEPT !.nonce = @ + 1]), LAMBDA next : MineLoop(next))

\* mine_block(difficulty): the nonce restarts at 0 and the stored hash is
\* the one the loop starts from.
Block_mine_block(b, blk_difficulty) ==
    Once([b EXCEPT !.difficulty = blk_difficulty, !.nonce = 0], LAMBDA start : MineLoop(start))

\* The block as is_valid leaves it, and what is_valid returns: both
\* calculate_* calls store their result in the block before the stored
\* value is compared with it.
Block_is_valid(b) ==
    Once(Block_calculate_hash(b), LAMBDA b1 :
        LET calculated_hash == b1.block_hash
        IN  IF calculated_hash # b1.block_hash THEN [ret |-> FALSE, block |-> b1]
            ELSE IF ~StartsWithZeros(b1.block_hash, b1.difficulty)
            THEN [ret |-> FALSE, block |-> b1]
            ELSE Once(Block_calculate_merkle_root(b1), LAMBDA b2 :
                    LET calculated_merkle == b2.merkle_root
                    IN  IF calculated_merkle # b2.merkle_root
                        THEN [ret |-> FALSE, block |-> b2]
                        ELSE [ret |-> \A i \in 1..Len(b2.transactions) :
                                         Transaction_verify_signature(b2.transactions[i]),
                              block |-> b2]))

\* Block.from_dict of a block's to_dict: the fields as given.
Block_from_dict(data) ==
    Block(data.index, data.timestamp,
          [i \in 1..Len(data.transactions) |->
              LET tx_data == data.transactions[i]
              IN  Transaction(tx_data.sender, tx_data.recipient, tx_data.amount, tx_data.fee,
                              tx_data.timestamp, tx_data.data, tx_data.signature,
                              tx_data.public_key, tx_data.transaction_hash)],
          data.previous_hash, data.nonce,
          data.difficulty, data.miner_address, data.block_reward, data.merkle_root,
          data.block_hash)

Block_create_genesis_block(now) ==
    Block(0, now,
          <<Transaction(SystemSender, GenesisRecipient, GenesisSupply, 0, now, <<71>>,
                        None, None, None)>>,
          <<0>>, 0, 1, GenesisRecipient, 0, None, None)

\* A signature that verify accepts, made without a private key: the public
\* key carries t = 0, so the challenge verify recomputes does not depend on
\* the one in the signature, and z has a coefficient beyond the bound that
\* verify's inverted check asks for.
ForgedPublicKey == Sig_pack_public_key(ConstBytes(SeedLen, 0), ConstVec(Sig_K, 0)).val

ForgedSignature(message) ==
    Once([i \in 1..Sig_L |-> [k \in 1..N |-> IF k = 1 THEN Sig_GAMMA1 ELSE 0]], LAMBDA z :
        LET A == Sig_expand_matrix(ConstBytes(SeedLen, 0))
            mu == Sig_shake256(message \o ForgedPublicKey, 64)
            w1 == Sig_high_bits(MatrixVectorMul(A, z, Sig_Q))
        IN  Sig_pack_signature(Sig_sample_challenge(mu \o Sig_pack_w1(w1).val), z).val)

\* A transaction carrying such a signature for its own hash.
Forged(tx) ==
    [tx EXCEPT !.public_key = ForgedPublicKey,
               !.signature = ForgedSignature(Encode(tx.transaction_hash))]

(* ------------------------------------------------------------------ *)
(* QXBlockchain (core/blockchain.py)                                   *)
(* ------------------------------------------------------------------ *)
\* balances is a dict: a function on the addresses it holds.
DictGet(d, key, default) == IF key \in DOMAIN d THEN d[key] ELSE default
DictSet(d, key, v) ==
    Once(<<d, v>>, LAMBDA dv :
        [x \in DOMAIN dv[1] \cup {key} |-> IF x = key THEN dv[2] ELSE dv[1][x]])

QXBlockchain_get_balance(bal, address) == DictGet(bal, address, 0)

QXBlockchain_get_latest_block(ch) == ch[Len(ch)]

\* __init__ and create_genesis_block at time now.
QXBlockchain_init(now) ==
    [chain |-> <<Block_mine_block(Block_create_genesis_block(now), 1)>>,
     pending_transactions |-> << >>,
     balances |-> DictSet(<< >>, GenesisAddress, GenesisSupply),
     wallets |-> << >>,
     difficulty |-> InitialDifficulty]

\* create_wallet without a password.  The keys are kept as bytes (hex() in
\* the wallet, bytes.fromhex() where they are used); base58's b58encode_check
\* is library code and the characters of the address are the 20 digest bytes.
QXBlockchain_create_wallet(wal, bal, user_id, kyber_seed, sig_seed, now) ==
    IF user_id \in DOMAIN wal
    THEN [exc |-> "none", ret |-> "error", wallets |-> wal, balances |-> bal]
    ELSE Once(<<Kyber_keygen(kyber_seed), Sig_keygen(sig_seed)>>, LAMBDA keys :
         LET kyber == keys[1]
             sig == keys[2]
         IN  IF kyber.exc # "none"
             THEN [exc |-> kyber.exc, ret |-> "raised", wallets |-> wal, balances |-> bal]
             ELSE IF sig.exc # "none"
             THEN [exc |-> sig.exc, ret |-> "raised", wallets |-> wal, balances |-> bal]
             ELSE LET address == <<81, 88>> \o Slice(Kyber_sha3_256(kyber.val.pk \o sig.pk), 0, 20)
                      wallet_data == [user_id |-> user_id, address |-> address,
                                      kyber_public_key |-> kyber.val.pk,
                                      kyber_private_key |-> kyber.val.sk,
                                      signature_public_key |-> sig.pk,
                                      signature_private_key |-> sig.sk,
                                      created_at |-> now]
                  IN  [exc |-> "none", ret |-> "created",
                       wallets |-> DictSet(wal, user_id, wallet_data),
                       balances |-> DictSet(bal, address, 0)])

\* create_transaction: the signed transaction, or how the call ends.
QXBlockchain_create_transaction(wal, bal, sender_user_id, recipient_address, amount, fee, data, now) ==
    IF sender_user_id \notin DOMAIN wal THEN Raise("ValueError")
    ELSE LET wallet == wal[sender_user_id]
         IN  IF QXBlockchain_get_balance(bal, wallet.address) < amount + fee
             THEN Raise("ValueError")
             ELSE Once(Transaction(wallet.address, recipient_address, amount, fee, now,
                                   data, None, None, None),
                       LAMBDA tx :
                          Transaction_sign([tx EXCEPT !.public_key = wallet.signature_public_key],
                                           wallet.signature_private_key))

\* add_transaction without the signature check of its first two lines.
QXBlockchain_add_transaction_unverified(pend, bal, tx) ==
    IF QXBlockchain_get_balance(bal, tx.sender) < tx.amount + tx.fee
    THEN [ret |-> FALSE, pending_transactions |-> pend]
    ELSE [ret |-> TRUE, pending_transactions |-> Append(pend, tx)]

\* add_transaction: what it returns and the pending pool it leaves.
QXBlockchain_add_transaction(pend, bal, tx) ==
    IF ~Transaction_verify_signature(tx)
    THEN [ret |-> FALSE, pending_transactions |-> pend]
    ELSE IF QXBlockchain_get_balance(bal, tx.sender) < tx.amount + tx.fee
    THEN [ret |-> FALSE, pending_transactions |-> pend]
    ELSE [ret |-> TRUE, pending_transactions |-> Append(pend, tx)]

\* The balance loop of mine_pending_transactions and of validate_and_add_block:
\* balances[tx.sender] -= ... raises KeyError for a sender the dict does not
\* hold, and the entries written before stay written.
RECURSIVE UpdateBalances(_, _, _, _)
UpdateBalances(bal, txs, i, miner_address) ==
    IF i > Len(txs) THEN [exc |-> "none", balances |-> bal]
    ELSE LET tx == txs[i]
         IN  IF tx.sender # SystemSender /\ tx.sender \notin DOMAIN bal
             THEN [exc |-> "KeyError", balances |-> bal]
             ELSE Once(IF tx.sender # SystemSender
                       THEN DictSet(bal, tx.sender, bal[tx.sender] - (tx.amount + tx.fee))
                       ELSE bal, LAMBDA b1 :
                  Once(DictSet(b1, tx.recipient, DictGet(b1, tx.recipient, 0) + tx.amount),
                       LAMBDA b2 :
                  Once(IF tx.fee > 0
                       THEN DictSet(b2, miner_address, DictGet(b2, miner_address, 0) + tx.fee)
                       ELSE b2, LAMBDA b3 :
                  UpdateBalances(b3, txs, i + 1, miner_address))))

\* adjust_difficulty: average_time < target_time * 0.5 and
\* average_time > target_time * 2, multiplied out.
QXBlockchain_adjust_difficulty(ch, diff) ==
    IF Len(ch) < 2 THEN diff
    ELSE LET recent_blocks == IF Len(ch) >= 10 THEN SubSeq(ch, Len(ch) - 9, Len(ch))
                              ELSE Tail(ch)
         IN  IF Len(recent_blocks) < 2 THEN diff
             ELSE LET time_taken == recent_blocks[Len(recent_blocks)].timestamp
                                    - recent_blocks[1].timestamp
                      gaps == Len(recent_blocks) - 1
                  IN  IF 2 * time_taken < TargetTime * gaps THEN diff + 1
                      ELSE IF time_taken > TargetTime * 2 * gaps
                      THEN (IF diff - 1 > 1 THEN diff - 1 ELSE 1)
                      ELSE diff

\* mine_pending_transactions cutting the pool at len(transactions_to_mine)
\* instead of len(transactions_to_mine) - 1.
QXBlockchain_mine_pending_transactions_off_by_one(ch, pend, bal, diff, miner_address, now) ==
    Once(Append(SubSeq(pend, 1, Min(Len(pend), MaxTransactionsPerBlock)),
                Transaction(SystemSender, miner_address, BlockReward, 0, now, <<77>>,
                            None, None, None)),
         LAMBDA transactions_to_mine :
    Once(Block_mine_block(
            Block(Len(ch), now, transactions_to_mine,
                  QXBlockchain_get_latest_block(ch).block_hash, 0, diff,
                  miner_address, BlockReward, None, None), diff),
         LAMBDA new_block :
    Once(UpdateBalances(bal, transactions_to_mine, 1, miner_address),
         LAMBDA upd :
        IF upd.exc # "none"
        THEN [exc |-> upd.exc, block |-> None, chain |-> ch, pending_transactions |-> pend,
              balances |-> upd.balances, difficulty |-> diff]
        ELSE [exc |-> "none", block |-> new_block, chain |-> Append(ch, new_block),
              pending_transactions |->
                  SubSeq(pend, Len(transactions_to_mine) + 1, Len(pend)),
              balances |-> upd.balances,
              difficulty |-> QXBlockchain_adjust_difficulty(Append(ch, new_block), diff)])))

\* mine_pending_transactions at time now: the block, and the fields of the
\* blockchain as the call leaves them.
QXBlockchain_mine_pending_transactions(ch, pend, bal, diff, miner_address, now) ==
    Once(Append(SubSeq(pend, 1, Min(Len(pend), MaxTransactionsPerBlock)),
                Transaction(SystemSender, miner_address, BlockReward, 0, now, <<77>>,
                            None, None, None)),
         LAMBDA transactions_to_mine :
    Once(Block_mine_block(
            Block(Len(ch), now, transactions_to_mine,
                  QXBlockchain_get_latest_block(ch).block_hash, 0, diff,
                  miner_address, BlockReward, None, None), diff),
         LAMBDA new_block :
    Once(UpdateBalances(bal, transactions_to_mine, 1, miner_address),
         LAMBDA upd :
        IF upd.exc # "none"
        THEN [exc |-> upd.exc, block |-> None, chain |-> ch, pending_transactions |-> pend,
              balances |-> upd.balances, difficulty |-> diff]
        ELSE [exc |-> "none", block |-> new_block, chain |-> Append(ch, new_block),
              pending_transactions |->
                  SubSeq(pend, Len(transactions_to_mine), Len(pend)),
              balances |-> upd.balances,
              difficulty |-> QXBlockchain_adjust_difficulty(Append(ch, new_block), diff)])))

\* validate_chain: what it returns, and the chain as the is_valid calls
\* leave its blocks.
RECURSIVE ValidateLoop(_, _)
ValidateLoop(ch, i) ==
    IF i > Len(ch) THEN [ret |-> TRUE, chain |-> ch]
    ELSE Once(Block_is_valid(ch[i]), LAMBDA v :
         Once([ch EXCEPT ![i] = v.block], LAMBDA ch1 :
             IF ~v.ret THEN [ret |-> FALSE, chain |-> ch1]
             ELSE IF ch1[i].previous_hash # ch1[i - 1].block_hash
             THEN [ret |-> FALSE, chain |-> ch1]
             ELSE ValidateLoop(ch1, i + 1)))

QXBlockchain_validate_chain(ch) == ValidateLoop(ch, 2)

\* recalculate_balances: one block's transactions, then the chain's blocks.
RECURSIVE RecalculateBlock(_, _, _)
RecalculateBlock(bal, block, i) ==
    IF i > Len(block.transactions) THEN bal
    ELSE LET tx == block.transactions[i]
         IN  Once(IF tx.sender # SystemSender
                  THEN DictSet(bal, tx.sender,
                               DictGet(bal, tx.sender, 0) - (tx.amount + tx.fee))
                  ELSE bal, LAMBDA b1 :
             Once(DictSet(b1, tx.recipient, DictGet(b1, tx.recipient, 0) + tx.amount),
                  LAMBDA b2 :
             Once(IF block.index > 0 /\ tx.fee > 0
                  THEN DictSet(b2, block.miner_address,
                               DictGet(b2, block.miner_address, 0) + tx.fee)
                  ELSE b2, LAMBDA b3 :
             RecalculateBlock(b3, block, i + 1))))

RECURSIVE RecalculateLoop(_, _, _)
RecalculateLoop(bal, ch, k) ==
    IF k > Len(ch) THEN bal
    ELSE Once(RecalculateBlock(bal, ch[k], 1), LAMBDA b : RecalculateLoop(b, ch, k + 1))

QXBlockchain_recalculate_balances(ch) == RecalculateLoop(<< >>, ch, 1)

\* Mutant of QXBlockchain_replace_chain: a chain of the same length
\* replaces the current one.
QXBlockchain_replace_chain_not_shorter(ch, bal, new_chain) ==
    IF Len(new_chain) < Len(ch) THEN [ret |-> FALSE, chain |-> ch, balances |-> bal]
    ELSE Once(QXBlockchain_validate_chain(new_chain), LAMBDA v :
             IF ~v.ret THEN [ret |-> FALSE, chain |-> ch, balances |-> bal]
             ELSE [ret |-> TRUE, chain |-> v.chain,
                   balances |-> QXBlockchain_recalculate_balances(v.chain)])

\* replace_chain: what it returns, and the chain and balances it leaves.
\* The temporary blockchain validates the blocks of new_chain themselves.
QXBlockchain_replace_chain(ch, bal, new_chain) ==
    IF Len(new_chain) <= Len(ch) THEN [ret |-> FALSE, chain |-> ch, balances |-> bal]
    ELSE Once(QXBlockchain_validate_chain(new_chain), LAMBDA v :
             IF ~v.ret THEN [ret |-> FALSE, chain |-> ch, balances |-> bal]
             ELSE [ret |-> TRUE, chain |-> v.chain,
                   balances |-> QXBlockchain_recalculate_balances(v.chain)])

(* ------------------------------------------------------------------ *)
(* A blockchain and its callers                                        *)
(* ------------------------------------------------------------------ *)
\* Addresses, users and miners of the exercise.
Alice == <<65>>
Bob == <<66>>
Stranger == <<88>>
Miner == <<77>>
UserIds == {<<117, 49>>, <<117, 50>>}
WalletSeeds == {AltSeed(4, 203), AltSeed(0, 35), AltSeed(0, 0)}

\* time.time(): the clock reads the latest block's timestamp plus a delay.
Clock(ch, delay) == QXBlockchain_get_latest_block(ch).timestamp + delay
Delays == {1, 30}

\* Transactions that arrive from outside (Transaction(**tx_data)): transfers
\* carrying a signature verify accepts, the same without a signature and
\* with a signature of zero bytes.
TransferGenesisAlice == Forged(Transaction(GenesisAddress, Alice, 5, 1, 1, None, None, None, None))
TransferAliceBob == Forged(Transaction(Alice, Bob, 3, 0, 2, None, None, None, None))
TransferStranger == Forged(Transaction(Stranger, Bob, 0, 0, 3, None, None, None, None))
SubmittedTxs ==
    {TransferGenesisAlice, TransferAliceBob,
     [TransferGenesisAlice EXCEPT !.signature = None],
     [TransferGenesisAlice EXCEPT !.signature = ConstBytes(Sig_SigLen, 0)]}

\* Chains handed to replace_chain (Block.from_dict of a peer's blocks).
PeerBlock(prev, txs, now, miner_address) ==
    Block_mine_block(Block(prev.index + 1, now, txs, prev.block_hash, 0, InitialDifficulty,
                           miner_address, BlockReward, None, None), InitialDifficulty)

RECURSIVE PeerChain(_, _, _)
PeerChain(ch, txs, count) ==
    IF count = 0 THEN ch
    ELSE Once(Append(ch, PeerBlock(ch[Len(ch)], txs, ch[Len(ch)].timestamp + 7, Bob)),
              LAMBDA longer : PeerChain(longer, txs, count - 1))

PeerGenesis == QXBlockchain_init(0).chain

\* A chain a peer mined with mine_pending_transactions.
PeerMined ==
    QXBlockchain_mine_pending_transactions(PeerGenesis, << >>,
        QXBlockchain_init(0).balances, InitialDifficulty, Bob, 7).chain

CandidateChains ==
    {PeerChain(PeerGenesis, << >>, count) : count \in 0..(MaxChain - 1)}
    \cup {PeerChain(PeerGenesis, <<TransferGenesisAlice>>, count) : count \in 1..(MaxChain - 1)}
    \cup {PeerMined,
          PeerChain(PeerGenesis, <<[TransferGenesisAlice EXCEPT !.signature = None]>>, 1),
          [PeerChain(PeerGenesis, << >>, 1) EXCEPT ![2].nonce = 0],
          [PeerChain(PeerGenesis, << >>, 1) EXCEPT ![2].block_hash = <<0, 0, 0, 0>>],
          [PeerChain(PeerGenesis, << >>, MaxChain - 1) EXCEPT ![MaxChain].previous_hash = <<0>>]}

ChainInit ==
    /\ LET bc == QXBlockchain_init(0)
       IN  /\ chain = bc.chain
           /\ pending_transactions = bc.pending_transactions
           /\ balances = bc.balances
           /\ wallets = bc.wallets
           /\ difficulty = bc.difficulty
    /\ bret = [op |-> "init", arg |-> << >>, exc |-> "none", ret |-> << >>]
    /\ sync_in_progress = FALSE
    /\ syncs = << >>
    /\ peers = {}
    /\ CodecIdle /\ KemIdle /\ SigIdle /\ FunIdle /\ RunIdle

CreateWallet ==
    \E user_id \in UserIds, sig_seed \in WalletSeeds :
        \E r \in {QXBlockchain_create_wallet(wallets, balances, user_id, ConstBytes(SeedLen, 1),
                                            sig_seed, Clock(chain, 1))} :
            /\ wallets' = r.wallets
            /\ balances' = r.balances
            /\ bret' = [op |-> "create_wallet", arg |-> << >>, exc |-> r.exc, ret |-> r.ret]
            /\ UNCHANGED <<chain, pending_transactions, difficulty,
                           sync_in_progress, syncs, peers,
                           codecVars, kemVars, sigVars, funVars, runVars>>

CreateTransaction ==
    \E user_id \in UserIds :
        \E r \in {QXBlockchain_create_transaction(wallets, balances, user_id, Bob, 0, 0, None,
                                                 Clock(chain, 1))} :
            /\ bret' = [op |-> "create_transaction", arg |-> user_id, exc |-> r.exc,
                        ret |-> r.val]
            /\ UNCHANGED <<chain, pending_transactions, balances, wallets, difficulty,
                           sync_in_progress, syncs, peers,
                           codecVars, kemVars, sigVars, funVars, runVars>>

\* add_transaction of a transaction from outside or of the one
\* create_transaction has just returned.
AddTransaction ==
    \E tx \in SubmittedTxs \cup
              (IF bret.op = "create_transaction" /\ bret.exc = "none" THEN {bret.ret} ELSE {}) :
        \E r \in {QXBlockchain_add_transaction(pending_transactions, balances, tx)} :
            /\ Len(r.pending_transactions) <= MaxPending
            /\ pending_transactions' = r.pending_transactions
            /\ bret' = [op |-> "add_transaction", arg |-> tx, exc |-> "none", ret |-> r.ret]
            /\ UNCHANGED <<chain, balances, wallets, difficulty, sync_in_progress, syncs, peers,
                           codecVars, kemVars, sigVars, funVars, runVars>>

\* The chain grows to MaxChain blocks, the proof-of-work search ends only
\* when a digest can have `difficulty` leading zeros, and the calls that
\* raise after moving balances stop once a balance is BalanceCap away from
\* zero or from the genesis supply.
BalancesWithinCap ==
    \A a \in DOMAIN balances :
        Abs(balances[a]) <= BalanceCap \/ Abs(balances[a] - GenesisSupply) <= BalanceCap

MinePendingTransactions ==
    \E delay \in Delays :
        \E r \in {QXBlockchain_mine_pending_transactions(chain, pending_transactions, balances,
                     difficulty, Miner, Clock(chain, delay))} :
            /\ Len(chain) < MaxChain
            /\ difficulty <= HashLen
            /\ BalancesWithinCap
            /\ chain' = r.chain
            /\ pending_transactions' = r.pending_transactions
            /\ balances' = r.balances
            /\ difficulty' = r.difficulty
            /\ bret' = [op |-> "mine_pending_transactions", arg |-> << >>, exc |-> r.exc,
                        ret |-> r.block]
            /\ UNCHANGED <<wallets, sync_in_progress, syncs, peers,
                           codecVars, kemVars, sigVars, funVars, runVars>>

ValidateChain ==
    \E r \in {QXBlockchain_validate_chain(chain)} :
        /\ chain' = r.chain
        /\ bret' = [op |-> "validate_chain", arg |-> << >>, exc |-> "none", ret |-> r.ret]
        /\ UNCHANGED <<pending_transactions, balances, wallets, difficulty,
                       sync_in_progress, syncs, peers,
                       codecVars, kemVars, sigVars, funVars, runVars>>

ReplaceChain ==
    \E new_chain \in CandidateChains :
        \E r \in {QXBlockchain_replace_chain(chain, balances, new_chain)} :
            /\ chain' = r.chain
            /\ balances' = r.balances
            /\ bret' = [op |-> "replace_chain", arg |-> new_chain, exc |-> "none",
                        ret |-> r.ret]
            /\ UNCHANGED <<pending_transactions, wallets, difficulty,
                           sync_in_progress, syncs, peers,
                           codecVars, kemVars, sigVars, funVars, runVars>>

ChainNext ==
    \/ AddTransaction
    \/ MinePendingTransactions
    \/ ValidateChain

SpecChain == ChainInit /\ [][ChainNext]_vars

\* The wallets of a blockchain and the transactions they sign.
WalletNext ==
    \/ CreateWallet
    \/ CreateTransaction
    \/ AddTransaction

SpecWallet == ChainInit /\ [][WalletNext]_vars

\* The blockchain of a node that is handed the chains of its peers.
ReplaceNext ==
    \/ AddTransaction
    \/ ReplaceChain

SpecReplace == ChainInit /\ [][ReplaceNext]_vars

(* ------------------------------------------------------------------ *)
(* replace_chain takes over longer valid chains only                   *)
(* ------------------------------------------------------------------ *)
\* The blocks of a chain without the hashes stored in them.
WithoutStoredHashes(ch) ==
    [i \in 1..Len(ch) |-> [ch[i] EXCEPT !.block_hash = None, !.merkle_root = None]]

\* C21: replace_chain returns True, and the chain becomes the blocks of
\* new_chain, exactly when new_chain is longer than the current chain and
\* validate_chain accepts it; otherwise it returns False and chain,
\* balances and pending transactions stay as they were.
C21_ReplaceOnlyLongerValid ==
    [][bret'.op = "replace_chain" =>
        LET new_chain == bret'.arg
        IN  IF Len(new_chain) > Len(chain) /\ QXBlockchain_validate_chain(new_chain).ret
            THEN /\ bret'.ret = TRUE
                 /\ WithoutStoredHashes(chain') = WithoutStoredHashes(new_chain)
            ELSE /\ bret'.ret = FALSE
                 /\ UNCHANGED <<chain, balances, pending_transactions>>]_vars

\* A longer chain that validate_chain rejects has been refused by a
\* blockchain that had taken over a peer's chain before and holds pending
\* transactions.
C21_Witness ==
    /\ bret.op = "replace_chain"
    /\ bret.ret = FALSE
    /\ Len(bret.arg) > Len(chain)
    /\ Len(chain) > 1
    /\ pending_transactions # << >>

(* ------------------------------------------------------------------ *)
(* QXNode (network/node.py): blocks and transactions from peers        *)
(* ------------------------------------------------------------------ *)
\* validate_and_add_block: what it returns and the blockchain it leaves.
\* The block is appended before the balance loop runs, and the except
\* clause turns the loop's KeyError into False.
QXNode_validate_and_add_block(ch, pend, bal, block) ==
    Once(Block_is_valid(block), LAMBDA v :
    LET latest_block == QXBlockchain_get_latest_block(ch)
        unchanged == [ret |-> FALSE, chain |-> ch, pending_transactions |-> pend,
                      balances |-> bal]
    IN  IF ~v.ret THEN unchanged
        ELSE IF v.block.previous_hash # latest_block.block_hash THEN unchanged
        ELSE IF v.block.index # latest_block.index + 1 THEN unchanged
        ELSE Once(UpdateBalances(bal, v.block.transactions, 1, v.block.miner_address),
                  LAMBDA upd :
             LET mined_hashes == {v.block.transactions[i].transaction_hash :
                                     i \in 1..Len(v.block.transactions)}
             IN  IF upd.exc # "none"
                 THEN [ret |-> FALSE, chain |-> Append(ch, v.block),
                       pending_transactions |-> pend, balances |-> upd.balances]
                 ELSE [ret |-> TRUE, chain |-> Append(ch, v.block),
                       pending_transactions |->
                           SelectSeq(pend, LAMBDA tx : tx.transaction_hash \notin mined_hashes),
                       balances |-> upd.balances]))

\* Blocks a peer posts to /blocks/receive on top of the current tip.
IncomingBlocks(ch) ==
    LET tip == QXBlockchain_get_latest_block(ch)
    IN  Once(PeerBlock(tip, << >>, tip.timestamp + 7, Bob), LAMBDA empty :
        {empty,
         PeerBlock(tip, <<TransferGenesisAlice>>, tip.timestamp + 7, Bob),
         PeerBlock(tip, <<TransferStranger>>, tip.timestamp + 7, Bob),
         PeerBlock(tip, <<TransferGenesisAlice, TransferStranger>>, tip.timestamp + 7, Bob),
         QXBlockchain_mine_pending_transactions(ch, << >>, << >>, InitialDifficulty, Bob,
                                                tip.timestamp + 7).block,
         [empty EXCEPT !.index = @ + 1],
         [empty EXCEPT !.previous_hash = <<0>>],
         [empty EXCEPT !.nonce = 0]})

\* receive_block: Block.from_dict, validate_and_add_block, and the response
\* (broadcast_block only talks to peers).
ReceiveBlock ==
    \E block_data \in IncomingBlocks(chain) :
        \E block \in {Block_from_dict(block_data)} :
        \E r \in {QXNode_validate_and_add_block(chain, pending_transactions, balances, block)} :
            /\ Len(chain) < MaxChain
            /\ chain' = r.chain
            /\ pending_transactions' = r.pending_transactions
            /\ balances' = r.balances
            /\ bret' = [op |-> "validate_and_add_block", arg |-> block, exc |-> "none",
                        ret |-> r.ret]
            /\ UNCHANGED <<wallets, difficulty, sync_in_progress, syncs, peers,
                           codecVars, kemVars, sigVars, funVars, runVars>>

\* receive_transaction: Transaction(**tx_data), add_transaction, and the
\* response (broadcast_transaction only talks to peers).
ReceiveTransaction ==
    \E tx_data \in SubmittedTxs :
        \E transaction \in {Transaction(tx_data.sender, tx_data.recipient, tx_data.amount,
                                tx_data.fee, tx_data.timestamp, tx_data.data, tx_data.signature,
                                tx_data.public_key, tx_data.transaction_hash)} :
        \E r \in {QXBlockchain_add_transaction(pending_transactions, balances, transaction)} :
            /\ Len(r.pending_transactions) <= MaxPending
            /\ pending_transactions' = r.pending_transactions
            /\ bret' = [op |-> "receive_transaction", arg |-> << >>, exc |-> "none",
                        ret |-> r.ret]
            /\ UNCHANGED <<chain, balances, wallets, difficulty, sync_in_progress, syncs, peers,
                           codecVars, kemVars, sigVars, funVars, runVars>>

NodeNext ==
    \/ ReceiveBlock
    \/ ReceiveTransaction

SpecNode == ChainInit /\ [][NodeNext]_vars

\* C22: validate_and_add_block returns True, with the block appended, only
\* for a block that is valid, links to the tip and has the next index; and
\* when it returns False the node's chain, balances and pending
\* transactions are what they were before the call.
C22_BlockAcceptanceAllOrNothing ==
    [][bret'.op = "validate_and_add_block" =>
        LET block == bret'.arg
            tip == QXBlockchain_get_latest_block(chain)
        IN  /\ bret'.ret = TRUE =>
                /\ Block_is_valid(block).ret
                /\ block.previous_hash = tip.block_hash
                /\ block.index = tip.index + 1
                /\ chain' = Append(chain, Block_is_valid(block).block)
            /\ bret'.ret = FALSE =>
                UNCHANGED <<chain, balances, pending_transactions>>]_vars

\* validate_and_add_block has returned False for a valid block on the tip
\* whose transaction is signed by a sender the node holds no balance for.
C22_Witness ==
    /\ bret.op = "validate_and_add_block"
    /\ bret.ret = FALSE
    /\ Block_is_valid(bret.arg).ret
    /\ Len(bret.arg.transactions) > 0
    /\ \E i \in 1..Len(bret.arg.transactions) :
          bret.arg.transactions[i].sender \notin DOMAIN balances

(***************************************************************************)
(* A block object and its callers: a block is built, mined, rebuilt from   *)
(* a dictionary in which a peer changed one entry, and validated.  fin is  *)
(* the block before the last operation, fout.block the block after it.     *)
(***************************************************************************)
BlockTxLists ==
    {<< >>, <<TransferGenesisAlice>>, <<TransferGenesisAlice, TransferAliceBob>>,
     <<[TransferGenesisAlice EXCEPT !.signature = None]>>}

BlockTimestamps == {7, 8}

\* to_dict of a block with one entry replaced, as a peer can send it
AlteredDicts(b) ==
    {[b EXCEPT !.transactions = txs] : txs \in BlockTxLists}
    \cup {[b EXCEPT !.timestamp = t] : t \in BlockTimestamps}
    \cup {[b EXCEPT !.nonce = 0],
          [b EXCEPT !.block_hash = <<0, 0, 0, 0>>],
          [b EXCEPT !.merkle_root = Sha3Hex(<< >>)]}

BlockInit ==
    /\ fop = "Block"
    /\ fin = << >>
    /\ \E txs \in BlockTxLists :
          fout = [ret |-> None,
                  block |-> Block(1, 7, txs, <<0>>, 0, InitialDifficulty, Bob, BlockReward,
                                  None, None)]
    /\ CodecIdle /\ KemIdle /\ SigIdle /\ RunIdle /\ LedgerIdle

BlockMine ==
    /\ fop' = "mine_block"
    /\ fin' = fout.block
    /\ fout' = [ret |-> None, block |-> Block_mine_block(fout.block, fout.block.difficulty)]
    /\ UNCHANGED <<codecVars, kemVars, sigVars, runVars, ledgerVars>>

BlockFromDict ==
    \E data \in AlteredDicts(fout.block) :
        /\ fop' = "from_dict"
        /\ fin' = fout.block
        /\ fout' = [ret |-> None, block |-> Block_from_dict(data)]
        /\ UNCHANGED <<codecVars, kemVars, sigVars, runVars, ledgerVars>>

BlockIsValid ==
    \E r \in {Block_is_valid(fout.block)} :
        /\ fop' = "is_valid"
        /\ fin' = fout.block
        /\ fout' = [ret |-> r.ret, block |-> r.block]
        /\ UNCHANGED <<codecVars, kemVars, sigVars, runVars, ledgerVars>>

BlockNext == BlockMine \/ BlockFromDict \/ BlockIsValid

SpecBlock == BlockInit /\ [][BlockNext]_vars

StaleHash(b) == b.block_hash # Block_calculate_hash(b).block_hash

StaleMerkle(b) == b.merkle_root # Block_calculate_merkle_root(b).merkle_root

\* C23: is_valid returns False for every block whose stored block_hash is not
\* the hash of its header fields and for every block whose stored merkle_root
\* is not the Merkle root of its transactions, and it leaves the stored
\* block_hash and merkle_root as they were.
C23_IsValidDetectsStale ==
    fop = "is_valid" =>
        /\ (StaleHash(fin) \/ StaleMerkle(fin)) => fout.ret = FALSE
        /\ fout.block.block_hash = fin.block_hash
        /\ fout.block.merkle_root = fin.merkle_root

\* is_valid has run on a block whose stored hash or Merkle root was stale
C23_Witness ==
    /\ fop = "is_valid"
    /\ StaleHash(fin) \/ StaleMerkle(fin)
    /\ fout.ret = TRUE
    /\ fout.block.block_hash # fin.block_hash \/ fout.block.merkle_root # fin.merkle_root

\* C24: add_transaction appends the transaction to the pending pool and
\* returns True exactly when its signature verifies under its public key and
\* the sender's balance is at least amount + fee; otherwise it returns False
\* and the pool is as before.  Chain and balances are not touched.
C24_PendingPoolAdmission ==
    [][bret'.op = "add_transaction" =>
        LET tx == bret'.arg
        IN  /\ IF /\ Transaction_verify_signature(tx)
                  /\ QXBlockchain_get_balance(balances, tx.sender) >= tx.amount + tx.fee
               THEN /\ bret'.ret = TRUE
                    /\ pending_transactions' = Append(pending_transactions, tx)
               ELSE /\ bret'.ret = FALSE
                    /\ pending_transactions' = pending_transactions
            /\ UNCHANGED <<chain, balances>>]_vars

\* a transaction whose signature verifies was turned away for its balance,
\* with transactions already in the pool and blocks already mined
C24_Witness ==
    /\ bret.op = "add_transaction"
    /\ bret.ret = FALSE
    /\ Transaction_verify_signature(bret.arg)
    /\ pending_transactions # << >>
    /\ Len(chain) > 1

\* C26: after mine_pending_transactions(miner) the new block holds the first
\* min(len(pending), max_transactions_per_block) pending transactions in
\* their order, followed by exactly one reward transaction (sender "0",
\* recipient miner, amount block_reward), and the pending pool is the
\* previous pool without exactly those transactions, the rest in order.
C26_MiningConsumesPoolHead ==
    [][(bret'.op = "mine_pending_transactions" /\ bret'.exc = "none") =>
        LET count == Min(Len(pending_transactions), MaxTransactionsPerBlock)
            new_block == bret'.ret
            reward_tx == new_block.transactions[count + 1]
        IN  /\ chain' = Append(chain, new_block)
            /\ Len(new_block.transactions) = count + 1
            /\ SubSeq(new_block.transactions, 1, count) = SubSeq(pending_transactions, 1, count)
            /\ reward_tx.sender = SystemSender
            /\ reward_tx.recipient = Miner
            /\ reward_tx.amount = BlockReward
            /\ pending_transactions' =
                  SubSeq(pending_transactions, count + 1, Len(pending_transactions))]_vars

\* a block was mined from a pool that held more than a block takes
C26_Witness ==
    /\ bret.op = "mine_pending_transactions"
    /\ bret.exc = "none"
    /\ Len(bret.ret.transactions) = MaxTransactionsPerBlock + 1
    /\ pending_transactions # << >>
    /\ chain[Len(chain)] = bret.ret

\* C27: after any sequence of add_transaction and mine_pending_transactions
\* on a blockchain, validate_chain() returns True: every block the node
\* mined itself passes is_valid and links to its predecessor.
C27_OwnChainValid == bret.op = "validate_chain" => bret.ret = TRUE

\* validate_chain has run on a chain that holds a block the node mined
C27_Witness ==
    /\ bret.op = "validate_chain"
    /\ bret.ret = FALSE
    /\ Len(chain) > 1
    /\ \A i \in 2..Len(chain) :
          /\ chain[i].miner_address = Miner
          /\ chain[i].previous_hash = chain[i - 1].block_hash
          /\ StartsWithZeros(chain[i].block_hash, chain[i].difficulty)
    /\ \E i \in 2..Len(chain) :
          LET reward_tx == chain[i].transactions[Len(chain[i].transactions)]
          IN  reward_tx.sender = SystemSender /\ ~Transaction_verify_signature(reward_tx)

\* C28: after any sequence of add_transaction (amount and fee not negative)
\* and mine_pending_transactions, no address has a negative balance.
C28_NoOverspending == \A address \in DOMAIN balances : balances[address] >= 0

\* a block was mined that holds two transactions of one sender, each of them
\* within the balance the sender had when it was admitted
C28_Witness ==
    /\ bret.op = "mine_pending_transactions"
    /\ bret.exc = "none"
    /\ \E i, j \in 1..Len(bret.ret.transactions) :
          LET tx == bret.ret.transactions[i]
              other == bret.ret.transactions[j]
          IN  /\ i < j
              /\ tx.sender = other.sender
              /\ tx.sender # SystemSender
              /\ tx.amount >= 0 /\ tx.fee >= 0 /\ other.amount >= 0 /\ other.fee >= 0
              /\ balances[tx.sender] < 0
              /\ balances[tx.sender] + (other.amount + other.fee) >= 0

(***************************************************************************)
(* A node's pending pool fed through add_transaction and through the       *)
(* /transactions/receive handler, and mined.                               *)
(***************************************************************************)
PoolNext == AddTransaction \/ ReceiveTransaction \/ MinePendingTransactions

SpecPool == ChainInit /\ [][PoolNext]_vars

\* the transaction hashes of the chain, block after block
RECURSIVE ChainHashes(_, _)
ChainHashes(ch, i) ==
    IF i > Len(ch) THEN << >>
    ELSE [k \in 1..Len(ch[i].transactions) |-> ch[i].transactions[k].transaction_hash]
         \o ChainHashes(ch, i + 1)

\* C29: a transaction, identified by its transaction_hash, is in the chain at
\* most once, however often it is submitted through add_transaction or the
\* /transactions/receive handler.
C29_NoReplay ==
    LET hashes == ChainHashes(chain, 1)
    IN  \A i, j \in 1..Len(hashes) : hashes[i] = hashes[j] => i = j

\* the block just mined holds a transaction that an earlier block holds
C29_Witness ==
    /\ bret.op = "mine_pending_transactions"
    /\ bret.exc = "none"
    /\ Len(chain) = MaxChain
    /\ \E k \in 1..Len(chain[MaxChain].transactions),
          l \in 1..Len(chain[MaxChain - 1].transactions) :
          /\ chain[MaxChain].transactions[k] = chain[MaxChain - 1].transactions[l]
          /\ Transaction_verify_signature(chain[MaxChain].transactions[k])

(***************************************************************************)
(* Syncs (network/node.py).  A node runs one task per request and one      *)
(* periodic_sync task; a task runs until its next await.  sync_with_network *)
(* awaits get_peer_chain once per peer: an execution of it is in progress  *)
(* from its start to the reply of its last peer.                           *)
(***************************************************************************)
PeerUrls == {1, 2}

\* what get_peer_chain returns: None, or the peer's chain
PeerReplies ==
    {None, PeerChain(PeerGenesis, << >>, 1), PeerChain(PeerGenesis, << >>, MaxChain - 1),
     PeerMined}

\* connect_to_peers, called while no sync iterates over self.peers
ConnectToPeers ==
    \E peer_urls \in SUBSET PeerUrls \ {{}} :
        /\ syncs = << >>
        /\ peers' = peers \cup peer_urls
        /\ bret' = [op |-> "connect_to_peers", arg |-> << >>, exc |-> "none", ret |-> None]
        /\ UNCHANGED <<chain, pending_transactions, balances, wallets, difficulty,
                       sync_in_progress, syncs,
                       codecVars, kemVars, sigVars, funVars, runVars>>

\* sync_with_network up to its first await: the executions in progress after
\* task by has called it.  Without peers the loop body never runs and the
\* call returns at once, the chain unchanged.
QXNode_sync_with_network(by, running, peer) ==
    Append(running, [by |-> by, peer |-> peer, asked |-> {peer}, longest_chain |-> chain])

\* The /sync handler.  web is a local name of start(): any handler that
\* reaches web.json_response raises NameError.
SyncBlockchain ==
    /\ IF sync_in_progress
       THEN UNCHANGED <<sync_in_progress, syncs>>
       ELSE IF peers = {}
       THEN UNCHANGED <<sync_in_progress, syncs>>
       ELSE \E peer \in peers :
               /\ sync_in_progress' = TRUE
               /\ syncs' = QXNode_sync_with_network("sync_blockchain", syncs, peer)
    /\ bret' = [op |-> "sync_blockchain", arg |-> << >>,
                exc |-> IF sync_in_progress \/ peers = {} THEN "NameError" ELSE "none",
                ret |-> IF sync_in_progress THEN "Sync already in progress"
                        ELSE IF peers = {} THEN "Sync completed" ELSE "awaiting"]
    /\ UNCHANGED <<chain, pending_transactions, balances, wallets, difficulty, peers,
                   codecVars, kemVars, sigVars, funVars, runVars>>

\* periodic_sync after its sleep
PeriodicSync ==
    /\ \A k \in 1..Len(syncs) : syncs[k].by # "periodic_sync"
    /\ IF ~sync_in_progress /\ peers # {}
       THEN \E peer \in peers :
               syncs' = QXNode_sync_with_network("periodic_sync", syncs, peer)
       ELSE UNCHANGED syncs
    /\ bret' = [op |-> "periodic_sync", arg |-> << >>, exc |-> "none",
                ret |-> IF ~sync_in_progress /\ peers # {} THEN "awaiting" ELSE "sleeping"]
    /\ UNCHANGED <<chain, pending_transactions, balances, wallets, difficulty,
                   sync_in_progress, peers,
                   codecVars, kemVars, sigVars, funVars, runVars>>

\* the body of sync_with_network's loop after get_peer_chain has returned
SyncLoopBody(longest_chain, reply) ==
    IF reply # None /\ Len(reply) > Len(longest_chain)
    THEN Once(QXBlockchain_validate_chain(reply), LAMBDA v :
            IF v.ret THEN v.chain ELSE longest_chain)
    ELSE longest_chain

\* A peer's reply reaches an execution of sync_with_network: the loop body,
\* then get_peer_chain of the next peer or the lines after the loop, and for
\* the /sync handler its finally clause.
PeerReply ==
    \E k \in 1..Len(syncs), reply \in PeerReplies :
        \E longest_chain \in {SyncLoopBody(syncs[k].longest_chain, reply)} :
            IF syncs[k].asked # peers
            THEN /\ \E peer \in peers \ syncs[k].asked :
                       syncs' = [syncs EXCEPT ![k] = [by |-> @.by, peer |-> peer,
                                                      asked |-> @.asked \cup {peer},
                                                      longest_chain |-> longest_chain]]
                 /\ bret' = [op |-> "sync_with_network", arg |-> << >>, exc |-> "none",
                             ret |-> "awaiting"]
                 /\ UNCHANGED <<chain, pending_transactions, balances, wallets, difficulty,
                                sync_in_progress, peers,
                                codecVars, kemVars, sigVars, funVars, runVars>>
            ELSE /\ syncs' = SubSeq(syncs, 1, k - 1) \o SubSeq(syncs, k + 1, Len(syncs))
                 /\ IF Len(longest_chain) > Len(chain)
                    THEN /\ chain' = longest_chain
                         /\ balances' = QXBlockchain_recalculate_balances(longest_chain)
                    ELSE UNCHANGED <<chain, balances>>
                 /\ sync_in_progress' =
                       IF syncs[k].by = "sync_blockchain" THEN FALSE ELSE sync_in_progress
                 /\ bret' = [op |-> "sync_with_network", arg |-> << >>,
                             exc |-> IF syncs[k].by = "sync_blockchain"
                                     THEN "NameError" ELSE "none",
                             ret |-> "Sync completed"]
                 /\ UNCHANGED <<pending_transactions, wallets, difficulty, peers,
                                codecVars, kemVars, sigVars, funVars, runVars>>

SyncNext == ConnectToPeers \/ SyncBlockchain \/ PeriodicSync \/ PeerReply

SpecSync == ChainInit /\ [][SyncNext]_vars

\* C25: on one node at most one execution of sync_with_network is in progress
\* at any time: neither the /sync handler nor periodic_sync starts one while
\* another is awaiting a peer.
C25_SyncsDoNotOverlap == Len(syncs) <= 1

\* the /sync handler has started a sync while the one periodic_sync started
\* is awaiting a peer
C25_Witness ==
    /\ Len(syncs) = 2
    /\ syncs[1].by = "periodic_sync"
    /\ syncs[2].by = "sync_blockchain"
    /\ sync_in_progress

============================================================================
